---- MODULE Spec2Model ----
(***************************************************************************)
(* Booking-request lifecycle of the tennis court reservation backend:      *)
(* the booking service (validation, creation, status transitions, sweeps), *)
(* the booking request DAO helpers, the booking processor and the          *)
(* background scheduler's booking handlers.                                *)
(*                                                                         *)
(* Time is a clock `now` in seconds; a calendar date is a day number       *)
(* (now \div SecondsPerDay).  The persistence collaborator is a keyed      *)
(* store `db` holding the record as the DAO wrote it.  The status of a     *)
(* stored record ranges over the seven values the services write           *)
(* (api/models.py BookingStatus).                                          *)
(***************************************************************************)
EXTENDS Integers, Sequences, FiniteSets, Bags, TLC

VARIABLES now, db, nextId, processing_bookings, threads, poll, jobs, sched,
          notifications, executor_failures, calls, last

vars == <<now, db, nextId, processing_bookings, threads, poll, jobs, sched,
          notifications, executor_failures, calls, last>>

---------------------------------------------------------------------------
(* Bounds of the model *)

MaxRequests == 4
MaxServiceRequests == 2
MaxDay == 2
MaxThreads == 4
MaxLifecycleThreads == 1
MaxLifecycleRequests == 1
MaxJobs == 4
MaxBookingJobs == 1
MaxLoops == 2
MaxNotifications == 2
MaxAttempt == 20
MaxFailures == 4
MaxTicks == 3
MaxCallers == 2

(* Program constants *)

SecondsPerDay == 86400
SecondsPerHour == 3600
DefaultWindowDays == 10
MaxBookingsPerDay == 2
DefaultMaxRetries == 3
MaxConcurrentBookings == 3
ExpirationDays == 1
ExpireHoursOld == 24
CleanupDaysOld == 30
RetryBaseDelay == 300
RetryCapDelay == 3600
JobMaxRetries == 3
DefaultRetryDelayMinutes == 30
MaxBookingRetries == 10

NoRecord == [status |-> "none"]
NoJob == [status |-> "none"]
NoCall == [op |-> "none"]
NoLoop == [pc |-> "none"]
None == -1
NoUser == ""

Users == {"u1", "u2"}
Courts == {1, 2}
TimeSlots == {"De 08:00 AM a 09:00 AM", "De 10:00 AM a 11:00 AM"}
RequestIds == 1..MaxRequests

(* distances in days from today that reach into, onto and past the widest
   window *)
DaysAhead == 0..(DefaultWindowDays + 2)

(* distances in days offered to the service operations: inside, at and
   beyond the courts' windows *)
InputDays == {9, 10, 11}

(* api/models.py BookingStatus *)
PENDING == "pending"
PROCESSING == "processing"
CONFIRMED == "confirmed"
CANCELLED == "cancelled"
FAILED == "failed"
EXPIRED == "expired"
SCHEDULED == "scheduled"

BookingStatus == {PENDING, PROCESSING, CONFIRMED, CANCELLED, FAILED, EXPIRED, SCHEDULED}

(* config.py Settings.court_availability_windows *)
court_availability_windows == [c \in {1, 2} |-> IF c = 1 THEN 10 ELSE 9]

today == now \div SecondsPerDay

Exists(id) == id \in DOMAIN db /\ db[id] # NoRecord

StoredIds == {id \in DOMAIN db : db[id] # NoRecord}

---------------------------------------------------------------------------
(* Availability calculator *)

(* mutant: the window map is looked up with the integer key, which never
   matches its string keys *)
get_court_availability_window_int_key(court_id) == DefaultWindowDays

get_court_availability_window(court_id) ==
    IF court_id \in DOMAIN court_availability_windows
    THEN court_availability_windows[court_id]
    ELSE DefaultWindowDays

(* mutant: range(1, window_days + 1) *)
calculate_available_dates_from_one(court_id, from_date) ==
    [i \in 1..get_court_availability_window(court_id) |-> from_date + i]

(* for i in range(window_days): from_date + timedelta(days=i) *)
calculate_available_dates(court_id, from_date) ==
    [i \in 1..get_court_availability_window(court_id) |-> from_date + (i - 1)]

InList(x, s) == \E i \in 1..Len(s) : s[i] = x

---------------------------------------------------------------------------
(* Conflict and quota queries of the DAO *)

(* mutant: the scan filter leaves out the time slot *)
get_booking_conflicts_any_slot(court_id, booking_date, time_slot) ==
    {id \in StoredIds : /\ db[id].court_id = court_id
                        /\ db[id].booking_date = booking_date
                        /\ db[id].status = CONFIRMED}

get_booking_conflicts(court_id, booking_date, time_slot) ==
    {id \in StoredIds : /\ db[id].court_id = court_id
                        /\ db[id].booking_date = booking_date
                        /\ db[id].time_slot = time_slot
                        /\ db[id].status = CONFIRMED}

get_user_bookings_for_date(user_id, booking_date) ==
    {id \in StoredIds : /\ db[id].user_id = user_id
                        /\ db[id].booking_date = booking_date
                        /\ db[id].status \in {CONFIRMED, PENDING}}

---------------------------------------------------------------------------
(* Booking validator *)

Message(kind, days) == [kind |-> kind, days |-> days]

(* mutant: the conflict branch is tested before the permission branch *)
validation_message_conflict_first(user_permission_valid, has_conflicts, is_available_now, is_schedulable, window_days) ==
    IF has_conflicts THEN Message("already_booked", 0)
    ELSE IF ~user_permission_valid THEN Message("max_bookings", MaxBookingsPerDay)
    ELSE IF is_available_now THEN Message("available", 0)
    ELSE IF is_schedulable THEN Message("scheduled", 0)
    ELSE Message("window", window_days)

validation_message(user_permission_valid, has_conflicts, is_available_now, is_schedulable, window_days) ==
    IF ~user_permission_valid THEN Message("max_bookings", MaxBookingsPerDay)
    ELSE IF has_conflicts THEN Message("already_booked", 0)
    ELSE IF is_available_now THEN Message("available", 0)
    ELSE IF is_schedulable THEN Message("scheduled", 0)
    ELSE Message("window", window_days)

validate_booking_request(court_id, requested_date, time_slot, user_id) ==
    LET window_days == get_court_availability_window(court_id)
        available_dates == calculate_available_dates(court_id, today)
        is_available_now == InList(requested_date, available_dates)
        tomorrow == today + 1
        future_available_dates == calculate_available_dates(court_id, tomorrow)
        is_schedulable == InList(requested_date, future_available_dates)
                          /\ ~is_available_now
        has_conflicts ==
            Cardinality(get_booking_conflicts(court_id, requested_date, time_slot)) > 0
        user_permission_valid ==
            ~(Cardinality(get_user_bookings_for_date(user_id, requested_date))
                >= MaxBookingsPerDay)
        days_ahead == requested_date - today
        available_at == IF is_schedulable /\ days_ahead = window_days
                        THEN tomorrow * SecondsPerDay
                        ELSE None
    IN  [is_valid |-> (is_available_now \/ is_schedulable)
                      /\ ~has_conflicts /\ user_permission_valid,
         is_available_now |-> is_available_now,
         is_schedulable |-> is_schedulable,
         message |-> validation_message(user_permission_valid, has_conflicts,
                                        is_available_now, is_schedulable, window_days),
         available_at |-> available_at,
         court_booking_window |-> window_days]

---------------------------------------------------------------------------
(* Persistence collaborator: the booking request DAO *)

(* BookingRequestModel(...) as create_booking_request builds it, after the
   DAO has set requested_at / expires_at *)
NewBooking(request_id, user_id, court_id, booking_date, time_slot, status) ==
    [request_id |-> request_id,
     user_id |-> user_id,
     court_id |-> court_id,
     booking_date |-> booking_date,
     time_slot |-> time_slot,
     status |-> status,
     retry_count |-> 0,
     max_retries |-> DefaultMaxRetries,
     created_at |-> now,
     updated_at |-> now,
     expires_at |-> now + ExpirationDays * SecondsPerDay,
     confirmation_code |-> None,
     confirmed_at |-> None]

(* BaseDAO.update: SET of every non-None attribute of the model object; an
   attribute that is None on the object keeps its stored value *)
MergeItem(stored, booking) ==
    [booking EXCEPT
        !.confirmation_code = IF booking.confirmation_code = None
                              THEN stored.confirmation_code ELSE @,
        !.confirmed_at = IF booking.confirmed_at = None
                         THEN stored.confirmed_at ELSE @]

(* update_booking_request raises NotFoundError when the record is gone *)
CanUpdateRequest(d, booking) == d[booking.request_id] # NoRecord

update_booking_request(d, booking) ==
    IF CanUpdateRequest(d, booking)
    THEN [d EXCEPT ![booking.request_id] = MergeItem(@, booking)]
    ELSE d

---------------------------------------------------------------------------
(* Booking lifecycle state machine of the booking service *)

valid_transitions(current_status) ==
    CASE current_status = PENDING -> {PROCESSING, CANCELLED, FAILED}
      [] current_status = PROCESSING -> {CONFIRMED, FAILED, CANCELLED}
      [] current_status = SCHEDULED -> {PROCESSING, CANCELLED, EXPIRED}
      [] current_status = CONFIRMED -> {CANCELLED}
      [] current_status = FAILED -> {PROCESSING}
      [] current_status = CANCELLED -> {}
      [] current_status = EXPIRED -> {}
      [] OTHER -> {}

(* mutant: every transition is accepted *)
_validate_status_transition_any(current_status, new_status) == TRUE

_validate_status_transition(current_status, new_status) ==
    new_status \in valid_transitions(current_status)

(* outcome of update_booking_status on store d: "ok", or the error raised *)
update_status_result(d, booking_id, new_status) ==
    IF d[booking_id] = NoRecord THEN "not_found"
    ELSE IF ~_validate_status_transition(d[booking_id].status, new_status)
         THEN "invalid_transition"
         ELSE "ok"

(* store after update_booking_status: one write of the record just read with
   the new status and updated_at, or no write when it raised *)
update_booking_status(d, booking_id, new_status) ==
    IF update_status_result(d, booking_id, new_status) = "ok"
    THEN update_booking_request(d,
            [d[booking_id] EXCEPT !.status = new_status, !.updated_at = now])
    ELSE d

---------------------------------------------------------------------------
(* Operations of the booking service *)

Idle ==
    UNCHANGED <<processing_bookings, threads, poll, jobs, sched, notifications,
                executor_failures, calls>>

CalculateAvailableDates(court_id, from_date) ==
    /\ last' = [op |-> "calculate_available_dates",
                court_id |-> court_id,
                from_date |-> from_date,
                result |-> calculate_available_dates(court_id, from_date),
                wrote |-> FALSE]
    /\ UNCHANGED <<now, db, nextId>>
    /\ Idle

(* mutant: the validation stores the candidate it has examined *)
ValidateBookingRequest_writes(user_id, court_id, days_ahead, time_slot) ==
    LET requested_date == today + days_ahead
    IN  /\ last' = [op |-> "validate_booking_request",
                    user_id |-> user_id,
                    court_id |-> court_id,
                    booking_date |-> requested_date,
                    time_slot |-> time_slot,
                    validation |-> validate_booking_request(
                                       court_id, requested_date, time_slot, user_id),
                    wrote |-> FALSE]
        /\ db' = [db EXCEPT ![1] =
                    NewBooking(1, user_id, court_id, requested_date, time_slot,
                               CONFIRMED)]
        /\ UNCHANGED <<now, nextId>>
        /\ Idle

ValidateBookingRequest(user_id, court_id, days_ahead, time_slot) ==
    LET requested_date == today + days_ahead
    IN  /\ last' = [op |-> "validate_booking_request",
                    user_id |-> user_id,
                    court_id |-> court_id,
                    booking_date |-> requested_date,
                    time_slot |-> time_slot,
                    validation |-> validate_booking_request(
                                       court_id, requested_date, time_slot, user_id),
                    wrote |-> FALSE]
        /\ UNCHANGED <<now, db, nextId>>
        /\ Idle

(* mutant: every accepted request starts as pending *)
initial_status_always_pending(validation) == PENDING

(* create_booking_request, "Determine booking status" *)
initial_status(validation) ==
    IF validation.is_available_now THEN PENDING ELSE SCHEDULED

(* mutant: a rejected candidate is stored as a failed record *)
CreateBookingRequest_persist_rejected(user_id, court_id, days_ahead, time_slot) ==
    LET requested_date == today + days_ahead
        validation == validate_booking_request(
                          court_id, requested_date, time_slot, user_id)
        status == IF validation.is_valid THEN initial_status(validation) ELSE FAILED
    IN  /\ nextId <= MaxRequests
        /\ db' = [db EXCEPT ![nextId] =
                    NewBooking(nextId, user_id, court_id, requested_date,
                               time_slot, status)]
        /\ nextId' = nextId + 1
        /\ last' = [op |-> "create_booking_request",
                    user_id |-> user_id,
                    court_id |-> court_id,
                    booking_date |-> requested_date,
                    time_slot |-> time_slot,
                    validation |-> validation,
                    booking_id |-> nextId,
                    status |-> status,
                    message |-> IF validation.is_available_now /\ validation.is_valid
                                THEN Message("created", 0)
                                ELSE validation.message,
                    scheduled_for |-> IF validation.is_available_now
                                      THEN None
                                      ELSE validation.available_at,
                    wrote |-> TRUE]
        /\ UNCHANGED now
        /\ Idle

CreateBookingRequest(user_id, court_id, days_ahead, time_slot) ==
    LET requested_date == today + days_ahead
        validation == validate_booking_request(
                          court_id, requested_date, time_slot, user_id)
        status == initial_status(validation)
    IN  /\ IF ~validation.is_valid
           THEN /\ last' = [op |-> "create_booking_request",
                            user_id |-> user_id,
                            court_id |-> court_id,
                            booking_date |-> requested_date,
                            time_slot |-> time_slot,
                            validation |-> validation,
                            booking_id |-> 0,
                            status |-> FAILED,
                            message |-> validation.message,
                            scheduled_for |-> None,
                            wrote |-> FALSE]
                /\ UNCHANGED <<db, nextId>>
           ELSE /\ nextId <= MaxRequests
                /\ db' = [db EXCEPT ![nextId] =
                            NewBooking(nextId, user_id, court_id, requested_date,
                                       time_slot, status)]
                /\ nextId' = nextId + 1
                /\ last' = [op |-> "create_booking_request",
                            user_id |-> user_id,
                            court_id |-> court_id,
                            booking_date |-> requested_date,
                            time_slot |-> time_slot,
                            validation |-> validation,
                            booking_id |-> nextId,
                            status |-> status,
                            message |-> IF validation.is_available_now
                                        THEN Message("created", 0)
                                        ELSE validation.message,
                            scheduled_for |-> IF validation.is_available_now
                                              THEN None
                                              ELSE validation.available_at,
                            wrote |-> TRUE]
        /\ UNCHANGED now
        /\ Idle

UpdateBookingStatus(booking_id, new_status) ==
    /\ db' = update_booking_status(db, booking_id, new_status)
    /\ last' = [op |-> "update_booking_status",
                booking_id |-> booking_id,
                new_status |-> new_status,
                result |-> update_status_result(db, booking_id, new_status),
                wrote |-> update_status_result(db, booking_id, new_status) = "ok"]
    /\ UNCHANGED <<now, nextId>>
    /\ Idle

(* mutant: any user may cancel a stored request *)
CancelBooking_any_user(booking_id, user_id) ==
    LET found == db[booking_id] # NoRecord
    IN  /\ db' = IF found
                 THEN update_booking_request(db,
                        [db[booking_id] EXCEPT !.status = CANCELLED,
                                               !.updated_at = now])
                 ELSE db
        /\ last' = [op |-> "cancel_booking",
                    booking_id |-> booking_id,
                    user_id |-> user_id,
                    result |-> found,
                    wrote |-> found]
        /\ UNCHANGED <<now, nextId>>
        /\ Idle

CancelBooking(booking_id, user_id) ==
    LET found == db[booking_id] # NoRecord /\ db[booking_id].user_id = user_id
    IN  /\ db' = IF found
                 THEN update_booking_request(db,
                        [db[booking_id] EXCEPT !.status = CANCELLED,
                                               !.updated_at = now])
                 ELSE db
        /\ last' = [op |-> "cancel_booking",
                    booking_id |-> booking_id,
                    user_id |-> user_id,
                    result |-> found,
                    wrote |-> found]
        /\ UNCHANGED <<now, nextId>>
        /\ Idle

(* the clock moves on past the expiry of the requests created so far *)
AdvanceClock ==
    /\ today < MaxDay
    /\ now' = now + (ExpirationDays + 1) * SecondsPerDay
    /\ last' = [op |-> "advance_clock", wrote |-> FALSE]
    /\ UNCHANGED <<db, nextId>>
    /\ Idle

(* an hour passes *)
Tick ==
    /\ now - today * SecondsPerDay < MaxTicks * SecondsPerHour
    /\ now' = now + SecondsPerHour
    /\ last' = [op |-> "advance_clock", wrote |-> FALSE]
    /\ UNCHANGED <<db, nextId>>
    /\ Idle

---------------------------------------------------------------------------
(* Named transitions of the booking service *)

process_booking(d, booking_id) == update_booking_status(d, booking_id, PROCESSING)

confirm_booking(d, booking_id) == update_booking_status(d, booking_id, CONFIRMED)

fail_booking(d, booking_id) == update_booking_status(d, booking_id, FAILED)

expire_booking(d, booking_id) == update_booking_status(d, booking_id, EXPIRED)

(* the record objects a DAO scan by status returns *)
get_requests_by_status(status) ==
    {db[id] : id \in {i \in StoredIds : db[i].status = status}}

(* expires_at < :current_time AND status IN (pending, failed) *)
get_expired_requests ==
    {db[id] : id \in {i \in StoredIds : /\ db[i].expires_at < now
                                        /\ db[i].status \in {PENDING, FAILED}}}

(* created_at < :cutoff_date *)
get_old_bookings(cutoff_date) ==
    {db[id] : id \in {i \in StoredIds : db[i].created_at < cutoff_date}}

(* mutant: every old booking is cleaned up, whatever its status *)
cleanup_targets_any_status(old_bookings) ==
    {booking.request_id : booking \in old_bookings}

(* the bookings of the loop that are in a final state and are deleted *)
cleanup_targets(old_bookings) ==
    {booking.request_id :
        booking \in {b \in old_bookings :
                        b.status \in {CONFIRMED, CANCELLED, FAILED, EXPIRED}}}

(* created_at < :cutoff_time AND status in statuses *)
get_old_requests_by_status(statuses, cutoff_time) ==
    {db[id] : id \in {i \in StoredIds : /\ db[i].created_at < cutoff_time
                                        /\ db[i].status \in statuses}}

(* a loop "for request in requests: try expire_booking(...) except: log";
   every call touches its own record only *)
RECURSIVE expire_each(_, _)
expire_each(d, requests) ==
    IF requests = {} THEN d
    ELSE LET request == CHOOSE r \in requests : TRUE
         IN  expire_each(expire_booking(d, request.request_id),
                         requests \ {request})

(* number of requests of the loop whose expire_booking did not raise *)
expired_count(d, requests) ==
    Cardinality({r \in requests :
        update_status_result(d, r.request_id, EXPIRED) = "ok"})

---------------------------------------------------------------------------
(* Record model: validation of retry_count on assignment and before a write *)

(* mutant: the model accepts any retry count *)
validate_retry_count_unchecked(v, max_retries) == TRUE

validate_retry_count(v, max_retries) == ~(v > max_retries)

---------------------------------------------------------------------------
(* Booking processor *)

(* _handle_booking_failure on the record object the caller holds: a retry
   writes that object back with its retry count raised; otherwise the
   request is failed through the service.  Any exception is logged. *)
_handle_booking_failure(d, booking) ==
    IF booking.retry_count < booking.max_retries
    THEN IF validate_retry_count(booking.retry_count + 1, booking.max_retries)
         THEN update_booking_request(d,
                  [booking EXCEPT !.retry_count = @ + 1])
         ELSE d
    ELSE fail_booking(d, booking.request_id)

(* _handle_booking_success *)
_handle_booking_success(d, booking) == confirm_booking(d, booking.request_id)

(* _process_booking_request: enter the in-progress map, move the request to
   processing and start the execution thread with the record object; when
   the status update raises, handle the failure on the spot.  At most
   MaxThreads execution threads run at a time in the model. *)
_process_booking_request(booking) ==
    LET started ==
            update_status_result(db, booking.request_id, PROCESSING) = "ok"
    IN  /\ started => BagCardinality(threads) < MaxThreads
        /\ processing_bookings' = processing_bookings \cup {booking.request_id}
        /\ IF started
           THEN /\ db' = process_booking(db, booking.request_id)
                /\ threads' = threads (+) SetToBag({booking})
           ELSE /\ db' = _handle_booking_failure(db, booking)
                /\ UNCHANGED threads
        /\ last' = [op |-> "_process_booking_request",
                    booking_id |-> booking.request_id,
                    result |-> started,
                    wrote |-> db' # db]

(* the first max_concurrent_bookings elements of a scan result *)
Slice(bookings) ==
    {q \in SUBSET bookings :
        Cardinality(q) = IF Cardinality(bookings) < MaxConcurrentBookings
                         THEN Cardinality(bookings)
                         ELSE MaxConcurrentBookings}

(* _process_pending_bookings: fetch the pending requests *)
ProcessPendingBookings ==
    /\ poll.phase = "idle"
    /\ \E q \in Slice(get_requests_by_status(PENDING)) :
            poll' = [phase |-> "pending", queue |-> q]
    /\ last' = [op |-> "_process_pending_bookings", wrote |-> FALSE]
    /\ UNCHANGED <<now, db, nextId, processing_bookings, threads, jobs, sched, notifications,
                 executor_failures, calls>>

(* _process_scheduled_bookings: fetch the scheduled requests once the
   pending pass is through; every scheduled request counts as ready *)
ProcessScheduledBookings ==
    /\ poll.phase = "pending"
    /\ poll.queue = {}
    /\ \E q \in Slice(get_requests_by_status(SCHEDULED)) :
            poll' = [phase |-> "scheduled", queue |-> q]
    /\ last' = [op |-> "_process_scheduled_bookings", wrote |-> FALSE]
    /\ UNCHANGED <<now, db, nextId, processing_bookings, threads, jobs, sched, notifications,
                 executor_failures, calls>>

(* one iteration of the loop over the fetched bookings of either pass *)
DispatchBooking ==
    /\ poll.phase \in {"pending", "scheduled"}
    /\ \E booking \in poll.queue :
        /\ poll' = [poll EXCEPT !.queue = @ \ {booking}]
        /\ IF booking.request_id \notin processing_bookings
           THEN _process_booking_request(booking)
           ELSE /\ last' = [op |-> "_process_booking_request",
                            booking_id |-> booking.request_id,
                            result |-> FALSE,
                            wrote |-> FALSE]
                /\ UNCHANGED <<db, processing_bookings, threads>>
    /\ UNCHANGED <<now, nextId, jobs, sched, notifications,
                 executor_failures, calls>>

(* _cleanup_expired_bookings, closing a poll cycle *)
CleanupExpiredBookings ==
    /\ poll.phase = "scheduled"
    /\ poll.queue = {}
    /\ db' = expire_each(db, get_expired_requests)
    /\ poll' = [phase |-> "idle", queue |-> {}]
    /\ last' = [op |-> "_cleanup_expired_bookings", wrote |-> db' # db]
    /\ UNCHANGED <<now, nextId, processing_bookings, threads, jobs, sched, notifications,
                 executor_failures, calls>>

(* _execute_booking: the execution thread ends with the executor's outcome
   and leaves the in-progress map.  The count of the executor's failures is
   left to the specification that keeps it. *)
ExecuteBooking(booking, success) ==
    /\ BagIn(booking, threads)
    /\ threads' = threads (-) SetToBag({booking})
    /\ db' = IF success
             THEN _handle_booking_success(db, booking)
             ELSE _handle_booking_failure(db, booking)
    /\ processing_bookings' = processing_bookings \ {booking.request_id}
    /\ last' = [op |-> "_execute_booking",
                booking_id |-> booking.request_id,
                result |-> success,
                wrote |-> db' # db]
    /\ UNCHANGED <<now, nextId, poll, jobs, sched, notifications, calls>>

(* process_booking_manually *)
ProcessBookingManually(booking_id) ==
    /\ IF db[booking_id] # NoRecord
       THEN _process_booking_request(db[booking_id])
       ELSE /\ last' = [op |-> "process_booking_manually",
                        booking_id |-> booking_id,
                        result |-> FALSE,
                        wrote |-> FALSE]
            /\ UNCHANGED <<db, processing_bookings, threads>>
    /\ UNCHANGED <<now, nextId, poll, jobs, sched, notifications,
                 executor_failures, calls>>

(* the process is restarted and the processor constructed anew: the
   in-progress map is empty, the daemon threads of the poll loop and of the
   executions are gone, and the store is as it was left *)
ProcessorRestart ==
    /\ processing_bookings' = {}
    /\ threads' = EmptyBag
    /\ poll' = [phase |-> "idle", queue |-> {}]
    /\ last' = [op |-> "__init__", wrote |-> FALSE]
    /\ UNCHANGED <<now, db, nextId, jobs, sched, notifications,
                   executor_failures, calls>>

---------------------------------------------------------------------------
(* Booking handlers of the background scheduler *)

(* _handle_midnight_booking: after the executor has answered, the handler
   calls booking_dao.update_booking_status, a method the booking request DAO
   does not have; the AttributeError is caught, nothing is written and the
   handler returns False.  It also returns False when the request or the
   user is missing. *)
HandleMidnightBooking(booking_id, user_found, success) ==
    /\ last' = [op |-> "_handle_midnight_booking",
                booking_id |-> booking_id,
                result |-> FALSE,
                wrote |-> FALSE]
    /\ UNCHANGED <<now, db, nextId>>
    /\ Idle

(* outcome of _handle_retry_booking: the value returned and the store *)
_handle_retry_booking(d, booking_id, user_found, success) ==
    LET booking_request == d[booking_id]
    IN  IF booking_request = NoRecord THEN [result |-> FALSE, db |-> d]
        ELSE IF booking_request.status # FAILED THEN [result |-> TRUE, db |-> d]
        ELSE IF ~user_found THEN [result |-> FALSE, db |-> d]
        ELSE IF success THEN [result |-> FALSE, db |-> d]
        ELSE IF ~validate_retry_count(booking_request.retry_count + 1,
                                      booking_request.max_retries)
             THEN [result |-> FALSE, db |-> d]
             ELSE [result |-> FALSE,
                   db |-> update_booking_request(d,
                            [booking_request EXCEPT !.retry_count = @ + 1])]

HandleRetryBooking(booking_id, user_found, success) ==
    LET outcome == _handle_retry_booking(db, booking_id, user_found, success)
    IN  /\ db' = outcome.db
        /\ last' = [op |-> "_handle_retry_booking",
                    booking_id |-> booking_id,
                    executed |-> /\ db[booking_id] # NoRecord
                                 /\ db[booking_id].status = FAILED
                                 /\ user_found,
                    result |-> outcome.result,
                    wrote |-> outcome.db # db]
        /\ UNCHANGED <<now, nextId>>
        /\ Idle

---------------------------------------------------------------------------
(* Background scheduler: the job table, start() and stop(), the loop
   threads and the execution of booking jobs.  A job keeps its slot after
   _cleanup_old_jobs has taken it out of the table (listed = FALSE), since a
   loop thread may still hold the job object in its ready list. *)

JobStatus_PENDING == "pending"
JobStatus_RUNNING == "running"
JobStatus_COMPLETED == "completed"
JobStatus_FAILED == "failed"
JobStatus_CANCELLED == "cancelled"

MIDNIGHT_BOOKING == "midnight_booking"
RETRY_BOOKING == "retry_booking"
CLEANUP_SESSIONS == "cleanup_sessions"
CLEANUP_EXPIRED_BOOKINGS == "cleanup_expired_bookings"

(* mutant: the delay doubles without a cap *)
retry_delay_uncapped(retry_count) == RetryBaseDelay * 2^retry_count

(* min(300 * (2 ** retry_count), 3600) *)
retry_delay(retry_count) ==
    IF RetryBaseDelay * 2^retry_count < RetryCapDelay
    THEN RetryBaseDelay * 2^retry_count
    ELSE RetryCapDelay

(* ScheduledJob(...) as schedule_job constructs it *)
NewJob(job_type, scheduled_time, booking_request_id) ==
    [status |-> JobStatus_PENDING,
     job_type |-> job_type,
     scheduled_time |-> scheduled_time,
     booking_request_id |-> booking_request_id,
     retry_count |-> 0,
     max_retries |-> JobMaxRetries,
     completed_at |-> None,
     listed |-> TRUE]

FreeJobSlots == {j \in 1..MaxJobs : jobs[j] = NoJob}

(* self.jobs[job_id] = job, in the next unused slot *)
schedule_job(js, job_type, scheduled_time, booking_request_id) ==
    LET free == {j \in 1..MaxJobs : js[j] = NoJob}
        job_id == CHOOSE j \in free : \A k \in free : j <= k
    IN  [js EXCEPT ![job_id] = NewJob(job_type, scheduled_time, booking_request_id)]

(* datetime.combine(target_date.date(), time.min) *)
midnight_time(target_date) == (target_date \div SecondsPerDay) * SecondsPerDay

schedule_midnight_booking(js, booking_request_id, target_date) ==
    schedule_job(js, MIDNIGHT_BOOKING, midnight_time(target_date), booking_request_id)

schedule_retry_booking(js, booking_request_id, retry_delay_minutes) ==
    schedule_job(js, RETRY_BOOKING, now + retry_delay_minutes * 60, booking_request_id)

(* schedule_cleanup_tasks: a session cleanup in one hour and an expired
   booking cleanup in six hours, both with an empty payload *)
schedule_cleanup_tasks(js) ==
    schedule_job(schedule_job(js, CLEANUP_SESSIONS, now + SecondsPerHour, None),
                 CLEANUP_EXPIRED_BOOKINGS, now + 6 * SecondsPerHour, None)

(* _handle_job_failure on the job object *)
_handle_job_failure(job) ==
    LET retry_count == job.retry_count + 1
    IN  IF retry_count < job.max_retries
        THEN [job EXCEPT !.retry_count = retry_count,
                         !.scheduled_time = now + retry_delay(retry_count),
                         !.status = JobStatus_PENDING]
        ELSE [job EXCEPT !.retry_count = retry_count,
                         !.status = JobStatus_FAILED,
                         !.completed_at = now]

(* the delay _handle_booking_failure computes from the raised retry count *)
_handle_booking_failure_retry_delay(booking) == retry_delay(booking.retry_count + 1)

(* jobs of the table that are pending and due *)
ready_jobs ==
    {j \in 1..MaxJobs : /\ jobs[j] # NoJob
                        /\ jobs[j].listed
                        /\ jobs[j].status = JobStatus_PENDING
                        /\ jobs[j].scheduled_time <= now}

_cleanup_old_jobs(js) ==
    [j \in 1..MaxJobs |->
        IF /\ js[j] # NoJob
           /\ js[j].listed
           /\ js[j].status \in {JobStatus_COMPLETED, JobStatus_FAILED,
                                JobStatus_CANCELLED}
           /\ js[j].completed_at # None
           /\ js[j].completed_at < now - 24 * SecondsPerHour
        THEN [js[j] EXCEPT !.listed = FALSE]
        ELSE js[j]]

SchedulerStep(op) ==
    /\ last' = [op |-> op, wrote |-> FALSE]
    /\ UNCHANGED <<now, db, nextId, processing_bookings, threads, poll,
                   notifications, executor_failures, calls>>

(* start(): nothing when already running; otherwise a new loop thread *)
SchedulerStart ==
    /\ ~sched.running
    /\ \E t \in 1..MaxLoops :
           /\ sched.loops[t] = NoLoop
           /\ \A u \in 1..MaxLoops : sched.loops[u] = NoLoop => t <= u
           /\ sched' = [running |-> TRUE,
                        loops |-> [sched.loops EXCEPT ![t] =
                                      [pc |-> "wait", ready |-> {}, job |-> 0]]]
    /\ UNCHANGED jobs
    /\ SchedulerStep("start")

(* stop(): running = False; join(timeout=5) returns whether or not the loop
   thread, which may be waiting for up to 30 seconds, has ended *)
SchedulerStop ==
    /\ sched.running
    /\ sched' = [sched EXCEPT !.running = FALSE]
    /\ UNCHANGED jobs
    /\ SchedulerStep("stop")

(* "while self.running": the thread ends, or collects the ready jobs *)
LoopScan(t) ==
    /\ sched.loops[t].pc = "wait"
    /\ sched' = [sched EXCEPT !.loops[t] =
                    IF sched.running
                    THEN [pc |-> "ready", ready |-> ready_jobs, job |-> 0]
                    ELSE NoLoop]
    /\ UNCHANGED jobs
    /\ SchedulerStep("_scheduler_loop")

(* _execute_job, up to the call of the handler: the next job of the ready
   list is marked running, whatever its status has become *)
LoopDispatch(t) ==
    /\ sched.loops[t].pc = "ready"
    /\ sched.loops[t].ready # {}
    /\ LET ready == sched.loops[t].ready
           j == CHOOSE k \in ready : \A m \in ready : k <= m
       IN  /\ jobs' = [jobs EXCEPT ![j].status = JobStatus_RUNNING]
           /\ sched' = [sched EXCEPT !.loops[t] =
                           [pc |-> "handler", ready |-> ready \ {j}, job |-> j]]
    /\ SchedulerStep("_execute_job")

(* _handle_cleanup_sessions: the sessions are cleaned up and the cleanup
   tasks are scheduled again, or the cleanup raises and the handler returns
   False *)
_handle_cleanup_sessions(d, success) ==
    [result |-> success, db |-> d, executed |-> FALSE, rescheduled |-> success]

(* _handle_cleanup_expired_bookings: cleanup_old_bookings(days_old=30), then
   expire_old_requests(hours_old=24), then the cleanup tasks are scheduled
   again; or the first call raises and the handler returns False *)
_handle_cleanup_expired_bookings(d, success) ==
    LET deleted == cleanup_targets(
                       get_old_bookings(now - CleanupDaysOld * SecondsPerDay))
        cleaned == [id \in RequestIds |->
                       IF id \in deleted THEN NoRecord ELSE d[id]]
        old_requests == get_old_requests_by_status(
                            {PENDING, SCHEDULED},
                            now - ExpireHoursOld * SecondsPerHour)
    IN  IF success
        THEN [result |-> TRUE, db |-> expire_each(cleaned, old_requests),
              executed |-> FALSE, rescheduled |-> TRUE]
        ELSE [result |-> FALSE, db |-> d, executed |-> FALSE,
              rescheduled |-> FALSE]

(* the value the handler of the job returns and the store it leaves;
   executed tells whether the executor was called, rescheduled whether the
   handler called schedule_cleanup_tasks *)
job_handler(d, job, user_found, success) ==
    LET booking_id == job.booking_request_id
    IN  IF job.job_type = CLEANUP_SESSIONS
        THEN _handle_cleanup_sessions(d, success)
        ELSE IF job.job_type = CLEANUP_EXPIRED_BOOKINGS
        THEN _handle_cleanup_expired_bookings(d, success)
        ELSE IF job.job_type = MIDNIGHT_BOOKING
        THEN [result |-> FALSE, db |-> d,
              executed |-> d[booking_id] # NoRecord /\ user_found,
              rescheduled |-> FALSE]
        ELSE LET outcome == _handle_retry_booking(d, booking_id, user_found, success)
             IN  [result |-> outcome.result, db |-> outcome.db,
                  executed |-> /\ d[booking_id] # NoRecord
                               /\ d[booking_id].status = FAILED
                               /\ user_found,
                  rescheduled |-> FALSE]

(* mutant: a handler that fails ends the loop thread *)
LoopReturn_failure_ends_loop(t, user_found, success) ==
    /\ sched.loops[t].pc = "handler"
    /\ LET j == sched.loops[t].job
           outcome == job_handler(db, jobs[j], user_found, success)
           scheduled == IF outcome.rescheduled
                        THEN schedule_cleanup_tasks(jobs) ELSE jobs
       IN  /\ outcome.rescheduled => Cardinality(FreeJobSlots) >= 2
           /\ db' = outcome.db
           /\ jobs' = [scheduled EXCEPT ![j] =
                         IF outcome.result
                         THEN [@ EXCEPT !.status = JobStatus_COMPLETED,
                                        !.completed_at = now]
                         ELSE _handle_job_failure(@)]
           /\ sched' = IF outcome.result
                       THEN [sched EXCEPT !.loops[t].pc = "ready",
                                          !.loops[t].job = 0]
                       ELSE [sched EXCEPT !.loops[t] = NoLoop]
           /\ last' = [op |-> "job_handler",
                       job |-> j,
                       job_type |-> jobs[j].job_type,
                       booking_id |-> jobs[j].booking_request_id,
                       executed |-> outcome.executed,
                       success |-> outcome.executed /\ success,
                       result |-> outcome.result,
                       rescheduled |-> outcome.rescheduled,
                       wrote |-> outcome.db # db]
    /\ UNCHANGED <<now, nextId, processing_bookings, threads, poll,
                   notifications, calls>>

(* _execute_job, from the return of the handler: completed on success,
   _handle_job_failure otherwise.  The count of the executor's failures is
   left to the specification that keeps it. *)
LoopReturn(t, user_found, success) ==
    /\ sched.loops[t].pc = "handler"
    /\ LET j == sched.loops[t].job
           outcome == job_handler(db, jobs[j], user_found, success)
           scheduled == IF outcome.rescheduled
                        THEN schedule_cleanup_tasks(jobs) ELSE jobs
       IN  /\ outcome.rescheduled => Cardinality(FreeJobSlots) >= 2
           /\ db' = outcome.db
           /\ jobs' = [scheduled EXCEPT ![j] =
                         IF outcome.result
                         THEN [@ EXCEPT !.status = JobStatus_COMPLETED,
                                        !.completed_at = now]
                         ELSE _handle_job_failure(@)]
           /\ sched' = [sched EXCEPT !.loops[t].pc = "ready",
                                     !.loops[t].job = 0]
           /\ last' = [op |-> "job_handler",
                       job |-> j,
                       job_type |-> jobs[j].job_type,
                       booking_id |-> jobs[j].booking_request_id,
                       executed |-> outcome.executed,
                       success |-> outcome.executed /\ success,
                       result |-> outcome.result,
                       rescheduled |-> outcome.rescheduled,
                       wrote |-> outcome.db # db]
    /\ UNCHANGED <<now, nextId, processing_bookings, threads, poll,
                   notifications, calls>>

(* end of a cycle: _cleanup_old_jobs, then the wait of 30 seconds *)
LoopWait(t) ==
    /\ sched.loops[t].pc = "ready"
    /\ sched.loops[t].ready = {}
    /\ jobs' = _cleanup_old_jobs(jobs)
    /\ sched' = [sched EXCEPT !.loops[t].pc = "wait"]
    /\ SchedulerStep("_cleanup_old_jobs")

(* job_id in self.jobs *)
known_job(job_id) == jobs[job_id] # NoJob /\ jobs[job_id].listed

(* cancel_job: True for a known pending job, which becomes cancelled; False
   and nothing done for any other job and for an unknown id *)
CancelJob(job_id) ==
    /\ jobs' = IF known_job(job_id) /\ jobs[job_id].status = JobStatus_PENDING
               THEN [jobs EXCEPT ![job_id].status = JobStatus_CANCELLED]
               ELSE jobs
    /\ last' = [op |-> "cancel_job",
                job |-> job_id,
                result |-> /\ known_job(job_id)
                           /\ jobs[job_id].status = JobStatus_PENDING,
                wrote |-> FALSE]
    /\ UNCHANGED <<now, db, nextId, processing_bookings, threads, poll, sched,
                   notifications, executor_failures, calls>>

(* schedule_cleanup_tasks, called once to set the maintenance going *)
ScheduleCleanupTasks ==
    /\ Cardinality(FreeJobSlots) >= 2
    /\ jobs' = schedule_cleanup_tasks(jobs)
    /\ last' = [op |-> "schedule_cleanup_tasks", wrote |-> FALSE]
    /\ UNCHANGED <<now, db, nextId, processing_bookings, threads, poll, sched,
                   notifications, executor_failures, calls>>

---------------------------------------------------------------------------
(* Booking lifecycle service: the events that reach the scheduler and the
   notification placeholder *)

(* process_booking_lifecycle(booking_id, SCHEDULED, {scheduled_time}):
   _handle_scheduled schedules the midnight booking job *)
HandleScheduled(booking_id, scheduled_time) ==
    /\ db[booking_id] # NoRecord
    /\ FreeJobSlots # {}
    /\ jobs' = schedule_midnight_booking(jobs, booking_id, scheduled_time)
    /\ last' = [op |-> "_handle_scheduled",
                booking_id |-> booking_id,
                result |-> TRUE,
                wrote |-> FALSE]
    /\ UNCHANGED <<now, db, nextId, processing_bookings, threads, poll, sched,
                   notifications, executor_failures, calls>>

(* process_booking_lifecycle(booking_id, FAILED): _handle_failed schedules a
   retry job while retries are left, and sends the failure notification
   otherwise *)
HandleFailed(booking_id) ==
    /\ db[booking_id] # NoRecord
    /\ IF db[booking_id].retry_count < db[booking_id].max_retries
       THEN /\ FreeJobSlots # {}
            /\ jobs' = schedule_retry_booking(jobs, booking_id, DefaultRetryDelayMinutes)
            /\ UNCHANGED notifications
       ELSE /\ BagCardinality(notifications) < MaxNotifications
            /\ notifications' = notifications (+)
                   SetToBag({[booking_id |-> booking_id, event_type |-> "failed"]})
            /\ UNCHANGED jobs
    /\ last' = [op |-> "_handle_failed",
                booking_id |-> booking_id,
                result |-> TRUE,
                wrote |-> FALSE]
    /\ UNCHANGED <<now, db, nextId, processing_bookings, threads, poll, sched,
                   executor_failures, calls>>

(* _handle_processing_completed of the lifecycle service, handed to it by
   process_booking_lifecycle: confirm_booking or fail_booking, then the
   CONFIRMED or FAILED event on the record read again; an exception of the
   status update ends the handler with False *)
HandleProcessingCompleted(booking_id, success) ==
    LET new_status == IF success THEN CONFIRMED ELSE FAILED
        result == update_status_result(db, booking_id, new_status)
        updated == update_booking_status(db, booking_id, new_status)
    IN  /\ db[booking_id] # NoRecord
        /\ db' = updated
        /\ IF result # "ok"
           THEN UNCHANGED <<jobs, notifications>>
           ELSE IF success
           THEN /\ BagCardinality(notifications) < MaxNotifications
                /\ notifications' = notifications (+)
                       SetToBag({[booking_id |-> booking_id,
                                  event_type |-> "confirmed"]})
                /\ UNCHANGED jobs
           ELSE IF updated[booking_id].retry_count < updated[booking_id].max_retries
           THEN /\ FreeJobSlots # {}
                /\ jobs' = schedule_retry_booking(jobs, booking_id,
                                                  DefaultRetryDelayMinutes)
                /\ UNCHANGED notifications
           ELSE /\ BagCardinality(notifications) < MaxNotifications
                /\ notifications' = notifications (+)
                       SetToBag({[booking_id |-> booking_id,
                                  event_type |-> "failed"]})
                /\ UNCHANGED jobs
        /\ last' = [op |-> "_handle_processing_completed",
                    booking_id |-> booking_id,
                    success |-> success,
                    result |-> result = "ok",
                    wrote |-> result = "ok"]
        /\ UNCHANGED <<now, nextId, processing_bookings, threads, poll, sched,
                       executor_failures, calls>>

---------------------------------------------------------------------------
(* Status helpers of the booking request DAO: read the record, change the
   model object, write it back *)

mark_request_as_confirmed(d, request_id, confirmation_code) ==
    IF d[request_id] = NoRecord THEN d
    ELSE update_booking_request(d,
            [d[request_id] EXCEPT !.status = CONFIRMED,
                                  !.confirmation_code =
                                      IF confirmation_code # None
                                      THEN confirmation_code ELSE @,
                                  !.confirmed_at = now])

mark_request_as_failed(d, request_id) ==
    IF d[request_id] = NoRecord THEN d
    ELSE update_booking_request(d, [d[request_id] EXCEPT !.status = FAILED])

mark_request_as_cancelled(d, request_id) ==
    IF d[request_id] = NoRecord THEN d
    ELSE update_booking_request(d, [d[request_id] EXCEPT !.status = CANCELLED])

increment_retry_count(d, request_id) ==
    IF d[request_id] = NoRecord THEN d
    ELSE IF ~validate_retry_count(d[request_id].retry_count + 1,
                                  d[request_id].max_retries)
         THEN d
         ELSE update_booking_request(d,
                  [d[request_id] EXCEPT !.retry_count = @ + 1])

(* DAO expire_old_requests: every fetched request is marked expired and
   written back *)
RECURSIVE mark_each_expired(_, _)
mark_each_expired(d, requests) ==
    IF requests = {} THEN d
    ELSE LET request == CHOOSE r \in requests : TRUE
         IN  mark_each_expired(
                 update_booking_request(d, [request EXCEPT !.status = EXPIRED]),
                 requests \ {request})

DaoHelper(op, booking_id, d) ==
    /\ db' = d
    /\ last' = [op |-> op,
                booking_id |-> booking_id,
                result |-> db[booking_id] # NoRecord,
                wrote |-> d # db]
    /\ UNCHANGED <<now, nextId>>
    /\ Idle

MarkRequestAsConfirmed(request_id, confirmation_code) ==
    DaoHelper("mark_request_as_confirmed", request_id,
              mark_request_as_confirmed(db, request_id, confirmation_code))

MarkRequestAsFailed(request_id) ==
    DaoHelper("mark_request_as_failed", request_id,
              mark_request_as_failed(db, request_id))

MarkRequestAsCancelled(request_id) ==
    DaoHelper("mark_request_as_cancelled", request_id,
              mark_request_as_cancelled(db, request_id))

IncrementRetryCount(request_id) ==
    DaoHelper("increment_retry_count", request_id,
              increment_retry_count(db, request_id))

DaoExpireOldRequests ==
    /\ db' = mark_each_expired(db, get_expired_requests)
    /\ last' = [op |-> "dao.expire_old_requests",
                result |-> Cardinality(get_expired_requests),
                wrote |-> db' # db]
    /\ UNCHANGED <<now, nextId>>
    /\ Idle

---------------------------------------------------------------------------
(* Expiry sweep of the booking service *)

ExpireOldRequests(hours_old) ==
    LET old_requests == get_old_requests_by_status(
                            {PENDING, SCHEDULED}, now - hours_old * SecondsPerHour)
    IN  /\ db' = expire_each(db, old_requests)
        /\ last' = [op |-> "expire_old_requests",
                    result |-> expired_count(db, old_requests),
                    wrote |-> db' # db]
        /\ UNCHANGED <<now, nextId>>
        /\ Idle

---------------------------------------------------------------------------
(* Cleanup of old bookings by the booking service *)

CleanupOldBookings(days_old) ==
    LET old_bookings == get_old_bookings(now - days_old * SecondsPerDay)
        deleted == cleanup_targets(old_bookings)
    IN  /\ db' = [id \in RequestIds |->
                    IF id \in deleted THEN NoRecord ELSE db[id]]
        /\ last' = [op |-> "cleanup_old_bookings",
                    days_old |-> days_old,
                    result |-> Cardinality(deleted),
                    wrote |-> deleted # {}]
        /\ UNCHANGED <<now, nextId>>
        /\ Idle

---------------------------------------------------------------------------
(* Calls of the booking service that overlap in time.  A call reads the
   record, works on the object it has read and writes it back later; the
   service holds no lock, and BaseDAO.update is called without a condition
   expression.  calls[c] is the object caller c holds between its read and
   its write. *)

Callers == 1..MaxCallers

(* update_booking_status up to the write: the record is read, the
   transition is validated against the status read, and the new status and
   updated_at are set on the object *)
UpdateBookingStatusRead(c, booking_id, new_status) ==
    LET result == update_status_result(db, booking_id, new_status)
    IN  /\ calls[c] = NoCall
        /\ calls' = IF result = "ok"
                    THEN [calls EXCEPT ![c] =
                            [op |-> "update_booking_status",
                             read |-> db[booking_id],
                             booking |-> [db[booking_id] EXCEPT
                                            !.status = new_status,
                                            !.updated_at = now]]]
                    ELSE calls
        /\ last' = [op |-> "update_booking_status",
                    caller |-> c,
                    booking_id |-> booking_id,
                    new_status |-> new_status,
                    result |-> IF result = "ok" THEN "read" ELSE result,
                    wrote |-> FALSE]
        /\ UNCHANGED <<now, db, nextId, processing_bookings, threads, poll, jobs,
                     sched, notifications, executor_failures>>

(* cancel_booking up to the write: the record is read, its owner is
   compared, and the cancelled status and updated_at are set on the object *)
CancelBookingRead(c, booking_id, user_id) ==
    LET found == db[booking_id] # NoRecord /\ db[booking_id].user_id = user_id
    IN  /\ calls[c] = NoCall
        /\ calls' = IF found
                    THEN [calls EXCEPT ![c] =
                            [op |-> "cancel_booking",
                             read |-> db[booking_id],
                             booking |-> [db[booking_id] EXCEPT
                                            !.status = CANCELLED,
                                            !.updated_at = now]]]
                    ELSE calls
        /\ last' = [op |-> "cancel_booking",
                    caller |-> c,
                    booking_id |-> booking_id,
                    user_id |-> user_id,
                    result |-> IF found THEN "read" ELSE "refused",
                    wrote |-> FALSE]
        /\ UNCHANGED <<now, db, nextId, processing_bookings, threads, poll, jobs,
                     sched, notifications, executor_failures>>

(* create_booking_request up to the save: the candidate is validated
   against the store as it is now; a rejected call ends here, an accepted
   one holds the record object it has built *)
CreateBookingRequestValidate(c, user_id, court_id, days_ahead, time_slot) ==
    LET requested_date == today + days_ahead
        validation == validate_booking_request(
                          court_id, requested_date, time_slot, user_id)
        status == initial_status(validation)
    IN  /\ calls[c] = NoCall
        /\ calls' = IF validation.is_valid
                    THEN [calls EXCEPT ![c] =
                            [op |-> "create_booking_request",
                             read |-> NoRecord,
                             booking |-> NewBooking(0, user_id, court_id,
                                                    requested_date, time_slot,
                                                    status)]]
                    ELSE calls
        /\ last' = [op |-> "create_booking_request",
                    caller |-> c,
                    user_id |-> user_id,
                    court_id |-> court_id,
                    booking_date |-> requested_date,
                    time_slot |-> time_slot,
                    validation |-> validation,
                    booking_id |-> 0,
                    status |-> IF validation.is_valid THEN status ELSE FAILED,
                    wrote |-> FALSE]
        /\ UNCHANGED <<now, db, nextId, processing_bookings, threads, poll, jobs,
                     sched, notifications, executor_failures>>

(* the save that ends an accepted create_booking_request: the record is put
   under a fresh id, whatever has been stored since the validation *)
CreateBookingRequestSave(c) ==
    /\ calls[c] # NoCall
    /\ calls[c].op = "create_booking_request"
    /\ nextId <= MaxRequests
    /\ db' = [db EXCEPT ![nextId] =
                [calls[c].booking EXCEPT !.request_id = nextId]]
    /\ nextId' = nextId + 1
    /\ calls' = [calls EXCEPT ![c] = NoCall]
    /\ last' = [op |-> "create_booking_request",
                caller |-> c,
                user_id |-> calls[c].booking.user_id,
                court_id |-> calls[c].booking.court_id,
                booking_date |-> calls[c].booking.booking_date,
                time_slot |-> calls[c].booking.time_slot,
                booking_id |-> nextId,
                status |-> calls[c].booking.status,
                wrote |-> TRUE]
    /\ UNCHANGED <<now, processing_bookings, threads, poll, jobs,
                 sched, notifications, executor_failures>>

(* the write that ends either call: booking_dao.update_booking_request of
   the object the caller holds, whatever the store holds by now *)
BookingWrite(c) ==
    /\ calls[c] # NoCall
    /\ calls[c].op \in {"update_booking_status", "cancel_booking"}
    /\ db' = update_booking_request(db, calls[c].booking)
    /\ calls' = [calls EXCEPT ![c] = NoCall]
    /\ last' = [op |-> calls[c].op,
                caller |-> c,
                booking_id |-> calls[c].booking.request_id,
                new_status |-> calls[c].booking.status,
                result |-> IF CanUpdateRequest(db, calls[c].booking)
                           THEN "ok" ELSE "not_found",
                wrote |-> db' # db]
    /\ UNCHANGED <<now, nextId, processing_bookings, threads, poll, jobs,
                 sched, notifications, executor_failures>>

---------------------------------------------------------------------------
Init ==
    /\ now = 0
    /\ db = [id \in RequestIds |-> NoRecord]
    /\ nextId = 1
    /\ processing_bookings = {}
    /\ threads = EmptyBag
    /\ poll = [phase |-> "idle", queue |-> {}]
    /\ jobs = [j \in 1..MaxJobs |-> NoJob]
    /\ sched = [running |-> FALSE, loops |-> [t \in 1..MaxLoops |-> NoLoop]]
    /\ notifications = EmptyBag
    /\ executor_failures = [id \in RequestIds |-> 0]
    /\ calls = [c \in 1..MaxCallers |-> NoCall]
    /\ last = [op |-> "init", wrote |-> FALSE]

---------------------------------------------------------------------------
(* Validation and creation.  The service is constructed on day 1 of the
   calendar; requests are created at distances inside, at and beyond each court's
   window, and moved through processing to confirmed or cancelled so that
   conflicts and quota arise. *)

InitValidate ==
    /\ now = SecondsPerDay
    /\ db = [id \in RequestIds |-> NoRecord]
    /\ nextId = 1
    /\ processing_bookings = {}
    /\ threads = EmptyBag
    /\ poll = [phase |-> "idle", queue |-> {}]
    /\ jobs = [j \in 1..MaxJobs |-> NoJob]
    /\ sched = [running |-> FALSE, loops |-> [t \in 1..MaxLoops |-> NoLoop]]
    /\ notifications = EmptyBag
    /\ executor_failures = [id \in RequestIds |-> 0]
    /\ calls = [c \in 1..MaxCallers |-> NoCall]
    /\ last = [op |-> "init", wrote |-> FALSE]

CalculateDates ==
    \E c \in Courts \cup {3}, f \in {today, today + 1} : CalculateAvailableDates(c, f)

Validate ==
    \E u \in Users \cup {NoUser}, c \in Courts, d \in InputDays :
        ValidateBookingRequest(u, c, d, "De 08:00 AM a 09:00 AM")

(* the scenarios of the booking service store at most MaxServiceRequests
   requests *)
ServiceRequestRoom == nextId' = nextId \/ nextId <= MaxServiceRequests

Create ==
    \E c \in Courts, d \in InputDays :
        /\ CreateBookingRequest("u1", c, d, "De 08:00 AM a 09:00 AM")
        /\ ServiceRequestRoom

Progress ==
    \E id \in RequestIds, s \in {PROCESSING, CONFIRMED} :
        UpdateBookingStatus(id, s)

NextCreate == Create \/ Progress

SpecCreate == InitValidate /\ [][NextCreate]_vars

NextValidate == CalculateDates \/ Validate \/ Create \/ Progress

SpecValidate == InitValidate /\ [][NextValidate]_vars

---------------------------------------------------------------------------
(* Lifecycle of booking requests: a request for court 1 is created inside
   or at the edge of its window and moved by the service, the processor, the
   scheduler's booking handlers, the DAO helpers and the expiry sweeps while
   the clock advances.  A call that leaves the store, the processor and the
   clock as they are is a stuttering step of the lifecycle and is left
   out. *)

LifecycleDays == {DefaultWindowDays - 1, DefaultWindowDays}

LifecycleIds == 1..MaxLifecycleRequests

program ==
    <<now, db, nextId, processing_bookings, threads, poll, jobs, sched,
      notifications>>

Changed == program' # program

CreateRequest ==
    \E d \in LifecycleDays :
        /\ nextId <= MaxLifecycleRequests
        /\ CreateBookingRequest("u1", 1, d, "De 08:00 AM a 09:00 AM")

UpdateStatus ==
    \E id \in LifecycleIds, s \in BookingStatus :
        UpdateBookingStatus(id, s) /\ Changed

Cancel ==
    \E id \in LifecycleIds, u \in Users : CancelBooking(id, u) /\ Changed

Execute ==
    \E booking \in BagToSet(threads), success \in BOOLEAN :
        ExecuteBooking(booking, success) /\ UNCHANGED executor_failures

(* the lifecycle runs one execution at a time *)
OneExecution == BagCardinality(threads') <= MaxLifecycleThreads

Dispatch == DispatchBooking /\ OneExecution

ProcessManually ==
    \E id \in LifecycleIds :
        ProcessBookingManually(id) /\ Changed /\ OneExecution

MidnightJob ==
    \E id \in LifecycleIds, user_found \in BOOLEAN, success \in BOOLEAN :
        HandleMidnightBooking(id, user_found, success)

RetryJob ==
    \E id \in LifecycleIds, user_found \in BOOLEAN, success \in BOOLEAN :
        HandleRetryBooking(id, user_found, success) /\ Changed

MarkConfirmed ==
    \E id \in LifecycleIds : MarkRequestAsConfirmed(id, None) /\ Changed

MarkFailed ==
    \E id \in LifecycleIds : MarkRequestAsFailed(id) /\ Changed

MarkCancelled ==
    \E id \in LifecycleIds : MarkRequestAsCancelled(id) /\ Changed

IncrementRetry ==
    \E id \in LifecycleIds : IncrementRetryCount(id)

DaoExpireSweep == DaoExpireOldRequests /\ Changed

ExpireSweep == ExpireOldRequests(ExpireHoursOld) /\ Changed

Next ==
    \/ CreateRequest
    \/ UpdateStatus
    \/ Cancel
    \/ ProcessPendingBookings
    \/ ProcessScheduledBookings
    \/ Dispatch
    \/ CleanupExpiredBookings
    \/ Execute
    \/ ProcessManually
    \/ MidnightJob
    \/ RetryJob
    \/ MarkConfirmed
    \/ MarkFailed
    \/ MarkCancelled
    \/ IncrementRetry
    \/ DaoExpireSweep
    \/ ExpireSweep
    \/ AdvanceClock

(* the operations of the service, the processor and the scheduler, without
   the status helpers of the DAO *)
NextOperations ==
    \/ CreateRequest
    \/ UpdateStatus
    \/ Cancel
    \/ ProcessPendingBookings
    \/ ProcessScheduledBookings
    \/ Dispatch
    \/ CleanupExpiredBookings
    \/ Execute
    \/ ProcessManually
    \/ MidnightJob
    \/ RetryJob
    \/ ExpireSweep
    \/ AdvanceClock

SpecOperations == Init /\ [][NextOperations]_vars

Spec == Init /\ [][Next]_vars

---------------------------------------------------------------------------
(* Status updates seen call by call: every request id and every target
   status is offered to update_booking_status, whether the call succeeds or
   raises. *)

UpdateStatusCall ==
    \E id \in RequestIds, s \in BookingStatus : UpdateBookingStatus(id, s)

NextTransitions == CreateRequest \/ UpdateStatusCall \/ AdvanceClock

SpecTransitions == Init /\ [][NextTransitions]_vars

---------------------------------------------------------------------------
(* The booking service call by call: requests of both users are created,
   moved by update_booking_status, cancelled by either user, expired and
   cleaned up while the clock advances; every call is taken, whether it
   changes the store or not. *)

CleanupDays == {ExpirationDays, CleanupDaysOld}

CreateCall ==
    \E u \in Users, d \in LifecycleDays :
        /\ CreateBookingRequest(u, 1, d, "De 08:00 AM a 09:00 AM")
        /\ ServiceRequestRoom

CancelCall ==
    \E id \in RequestIds, u \in Users : CancelBooking(id, u)

ExpireSweepCall == ExpireOldRequests(ExpireHoursOld)

CleanupCall == \E days_old \in CleanupDays : CleanupOldBookings(days_old)

NextService ==
    \/ CreateCall
    \/ UpdateStatusCall
    \/ CancelCall
    \/ ExpireSweepCall
    \/ CleanupCall
    \/ AdvanceClock

SpecService == Init /\ [][NextService]_vars

---------------------------------------------------------------------------
(* The booking processor on its own: the poll cycle, manual processing and
   up to MaxThreads executions in flight, for one request. *)

ProcessManuallyCall ==
    \E id \in LifecycleIds : ProcessBookingManually(id)

ExecuteCall ==
    \E booking \in BagToSet(threads), success \in BOOLEAN :
        ExecuteBooking(booking, success) /\ UNCHANGED executor_failures

NextProcessor ==
    \/ CreateRequest
    \/ ProcessPendingBookings
    \/ ProcessScheduledBookings
    \/ DispatchBooking
    \/ CleanupExpiredBookings
    \/ ExecuteCall
    \/ ProcessManuallyCall
    \/ AdvanceClock

SpecProcessor == Init /\ [][NextProcessor]_vars

---------------------------------------------------------------------------
(* The background scheduler with its loop threads: a request is created,
   the lifecycle service schedules its midnight job or a retry job, and the
   scheduler is started and stopped while the loop threads scan and execute
   and the clock advances. *)

(* the scenarios with booking jobs schedule at most MaxBookingJobs jobs *)
BookingJobRoom ==
    jobs' = jobs \/ Cardinality(FreeJobSlots) > MaxJobs - MaxBookingJobs

ScheduledEvent ==
    \E id \in LifecycleIds :
        /\ db[id] # NoRecord
        /\ HandleScheduled(id, (today + 1) * SecondsPerDay)
        /\ BookingJobRoom

FailedEvent ==
    \E id \in LifecycleIds : HandleFailed(id) /\ BookingJobRoom

Scan == \E t \in 1..MaxLoops : LoopScan(t)

DispatchJob == \E t \in 1..MaxLoops : LoopDispatch(t)

ReturnJob ==
    \E t \in 1..MaxLoops, user_found \in BOOLEAN, success \in BOOLEAN :
        LoopReturn(t, user_found, success) /\ UNCHANGED executor_failures

Wait == \E t \in 1..MaxLoops : LoopWait(t)

CancelJobCall == \E j \in 1..(MaxBookingJobs + 1) : CancelJob(j)

NextScheduler ==
    \/ CreateRequest
    \/ ScheduledEvent
    \/ FailedEvent
    \/ SchedulerStart
    \/ SchedulerStop
    \/ Scan
    \/ DispatchJob
    \/ ReturnJob
    \/ Wait
    \/ CancelJobCall
    \/ AdvanceClock
    \/ Tick

SpecScheduler == Init /\ [][NextScheduler]_vars

---------------------------------------------------------------------------
(* A scheduled request from creation to the firing of its midnight job: the
   scheduler is started once and its loop thread keeps running, time
   passes, and the executor succeeds whenever it is called.  The processor's poll cycle is part of the scenario, but nothing
   in the repository starts it: it may run or not. *)

(* the executor succeeds whenever it is called *)
ReturnJobSuccess ==
    \E t \in 1..MaxLoops, user_found \in BOOLEAN :
        LoopReturn(t, user_found, TRUE) /\ UNCHANGED executor_failures

ExecuteSuccess ==
    \E booking \in BagToSet(threads) :
        ExecuteBooking(booking, TRUE) /\ UNCHANGED executor_failures

LoopStep == Scan \/ DispatchJob \/ ReturnJobSuccess \/ Wait

TimePasses == AdvanceClock \/ Tick

NextScheduled ==
    \/ CreateRequest
    \/ ScheduledEvent
    \/ SchedulerStart
    \/ LoopStep
    \/ TimePasses
    \/ ProcessPendingBookings
    \/ ProcessScheduledBookings
    \/ Dispatch
    \/ CleanupExpiredBookings
    \/ ExecuteSuccess

SpecScheduled ==
    /\ Init
    /\ [][NextScheduled]_vars
    /\ WF_vars(LoopStep)
    /\ WF_vars(TimePasses)

---------------------------------------------------------------------------
(* The processor's poll cycles over several requests: up to MaxRequests
   requests are created inside or at the edge of the window, the pending
   pass and the scheduled pass dispatch them, and the executor succeeds. *)

CreateForPoll ==
    \E d \in LifecycleDays :
        CreateBookingRequest("u1", 1, d, "De 08:00 AM a 09:00 AM")

NextPollCycles ==
    \/ CreateForPoll
    \/ ProcessPendingBookings
    \/ ProcessScheduledBookings
    \/ DispatchBooking
    \/ CleanupExpiredBookings
    \/ ExecuteSuccess

SpecPollCycles == Init /\ [][NextPollCycles]_vars

---------------------------------------------------------------------------
(* The scheduler with its loop threads and the clock going on: a loop thread
   that can take a step of its cycle eventually takes one, and the handlers
   return. *)

SpecSchedulerFair ==
    /\ Init
    /\ [][NextScheduler]_vars
    /\ WF_vars(LoopStep)
    /\ WF_vars(TimePasses)

---------------------------------------------------------------------------
(* The scheduler started once and never stopped: one loop thread, which
   keeps cycling, and the clock going on. *)

NextPolling ==
    \/ CreateRequest
    \/ ScheduledEvent
    \/ FailedEvent
    \/ SchedulerStart
    \/ Scan
    \/ DispatchJob
    \/ ReturnJob
    \/ Wait
    \/ CancelJobCall
    \/ TimePasses

SpecPolling ==
    /\ Init
    /\ [][NextPolling]_vars
    /\ WF_vars(LoopStep)
    /\ WF_vars(TimePasses)

---------------------------------------------------------------------------
(* The maintenance jobs: the cleanup tasks are scheduled once, the scheduler
   is started, and started again only when a stopped loop thread has ended,
   and its loop thread executes the jobs that are due; a cleanup can succeed
   or raise. *)

ScheduleCleanupCall ==
    /\ \A j \in 1..MaxJobs : jobs[j] = NoJob
    /\ ScheduleCleanupTasks

StartOneLoop ==
    /\ \A t \in 1..MaxLoops : sched.loops[t] = NoLoop
    /\ SchedulerStart

NextMaintenance ==
    \/ CreateRequest
    \/ ScheduleCleanupCall
    \/ StartOneLoop
    \/ SchedulerStop
    \/ Scan
    \/ DispatchJob
    \/ ReturnJob
    \/ Wait
    \/ TimePasses

SpecMaintenance == Init /\ [][NextMaintenance]_vars

---------------------------------------------------------------------------
(* A request whose executor fails every time: the processor's poll cycle
   dispatches it, the lifecycle service handles its failure events, the
   scheduler runs the retry job, and the failures of the executor are
   counted per request. *)

ExecuteFailure ==
    \E booking \in BagToSet(threads) :
        /\ executor_failures[booking.request_id] < MaxFailures
        /\ ExecuteBooking(booking, FALSE)
        /\ executor_failures' =
               [executor_failures EXCEPT ![booking.request_id] = @ + 1]

ReturnJobFailure ==
    \E t \in 1..MaxLoops, user_found \in BOOLEAN :
        /\ LoopReturn(t, user_found, FALSE)
        /\ last'.executed => executor_failures[last'.booking_id] < MaxFailures
        /\ executor_failures' =
               IF last'.executed
               THEN [executor_failures EXCEPT ![last'.booking_id] = @ + 1]
               ELSE executor_failures

NextFailing ==
    \/ CreateRequest
    \/ ProcessPendingBookings
    \/ ProcessScheduledBookings
    \/ Dispatch
    \/ CleanupExpiredBookings
    \/ ExecuteFailure
    \/ FailedEvent
    \/ SchedulerStart
    \/ Scan
    \/ DispatchJob
    \/ ReturnJobFailure
    \/ Wait
    \/ TimePasses

SpecFailing == Init /\ [][NextFailing]_vars

---------------------------------------------------------------------------
(* Retry delays: the failure handlers of the scheduler and of the processor
   applied to jobs and bookings of every retry count, at several times of
   the clock. *)

JobFailure ==
    \E retry_count \in 0..MaxAttempt, max_retries \in {JobMaxRetries, MaxAttempt + 2} :
        /\ last' = [op |-> "_handle_job_failure",
                    attempt |-> retry_count + 1,
                    job |-> _handle_job_failure(
                                [NewJob(RETRY_BOOKING, now, 1) EXCEPT
                                    !.status = JobStatus_RUNNING,
                                    !.retry_count = retry_count,
                                    !.max_retries = max_retries]),
                    wrote |-> FALSE]
        /\ UNCHANGED <<now, db, nextId>>
        /\ Idle

BookingFailure ==
    \E retry_count \in 0..(MaxBookingRetries - 1) :
        /\ last' = [op |-> "_handle_booking_failure",
                    attempt |-> retry_count + 1,
                    retry_delay |-> _handle_booking_failure_retry_delay(
                                       [NewBooking(1, "u1", 1, today, "De 08:00 AM a 09:00 AM", PROCESSING)
                                           EXCEPT !.retry_count = retry_count,
                                                  !.max_retries = MaxBookingRetries]),
                    wrote |-> FALSE]
        /\ UNCHANGED <<now, db, nextId>>
        /\ Idle

NextRetryDelay == JobFailure \/ BookingFailure \/ AdvanceClock \/ Tick

SpecRetryDelay == Init /\ [][NextRetryDelay]_vars

---------------------------------------------------------------------------
(* The lifecycle service's events on a request whose status the booking
   service changes *)

ProcessingCompletedEvent ==
    \E id \in LifecycleIds, success \in BOOLEAN :
        HandleProcessingCompleted(id, success) /\ BookingJobRoom

NextLifecycleEvents ==
    \/ CreateRequest
    \/ UpdateStatus
    \/ ProcessingCompletedEvent
    \/ FailedEvent
    \/ TimePasses

SpecLifecycleEvents == Init /\ [][NextLifecycleEvents]_vars

---------------------------------------------------------------------------
(* Properties of validation and creation *)

(* the configured window of a court, as the settings give it *)
WindowOf(court_id) == IF court_id = 1 THEN 10 ELSE IF court_id = 2 THEN 9 ELSE 10

ConfirmedOn(court_id, booking_date, time_slot) ==
    \E id \in RequestIds :
        /\ db[id] # NoRecord
        /\ db[id].court_id = court_id
        /\ db[id].booking_date = booking_date
        /\ db[id].time_slot = time_slot
        /\ db[id].status = CONFIRMED

ActiveBookings(user_id, booking_date) ==
    Cardinality({id \in RequestIds :
        /\ db[id] # NoRecord
        /\ db[id].user_id = user_id
        /\ db[id].booking_date = booking_date
        /\ db[id].status \in {PENDING, CONFIRMED}})

OverQuota(user_id, booking_date) ==
    user_id # NoUser /\ ActiveBookings(user_id, booking_date) >= 2

AllUsers == Users \cup {NoUser}

(* C5: with no conflict and the quota not exceeded, a request for today+d on
   a court with window W is available now when 0 <= d < W, is schedulable
   (not available now, available_at = midnight of tomorrow) when d = W, and
   is invalid with the message naming the W-day window when d > W *)
C5_WindowClassification ==
    \A u \in AllUsers, c \in Courts, d \in DaysAhead, s \in TimeSlots :
        LET v == validate_booking_request(c, today + d, s, u)
            W == WindowOf(c)
        IN  (~ConfirmedOn(c, today + d, s) /\ ~OverQuota(u, today + d)) =>
              /\ (d < W => v.is_available_now /\ v.is_valid)
              /\ (d = W => /\ v.is_schedulable
                           /\ ~v.is_available_now
                           /\ v.is_valid
                           /\ v.available_at = (today + 1) * SecondsPerDay)
              /\ (d > W => /\ ~v.is_valid
                           /\ v.message = Message("window", W))

(* C5 witness: the validation run by a creation has answered a request at
   exactly the window distance of court 2 as schedulable at midnight
   tomorrow *)
C5_Witness ==
    /\ last.op = "create_booking_request"
    /\ last.court_id = 2
    /\ last.booking_date = today + 9
    /\ last.validation.is_schedulable
    /\ ~last.validation.is_available_now
    /\ last.validation.available_at = (today + 1) * SecondsPerDay

(* C6: calculate_available_dates(court, fromDate) is the list fromDate,
   fromDate+1, ..., fromDate+W-1 for the court's window W (10 when the
   court is not configured) *)
C6_AvailableDates ==
    last.op = "calculate_available_dates" =>
        LET r == last.result
            W == WindowOf(last.court_id)
        IN  /\ Len(r) = W
            /\ r[1] = last.from_date
            /\ \A i \in 1..(W - 1) : r[i + 1] = r[i] + 1
            /\ \A i \in 1..W : r[i] = last.from_date + i - 1

(* C6 witness: the dates of the unconfigured court 3 have been computed *)
C6_Witness ==
    /\ last.op = "calculate_available_dates"
    /\ last.court_id = 3
    /\ last.from_date = today + 1
    /\ Len(last.result) = 10

(* C7 as stated: is_valid iff (available now or schedulable), no confirmed
   booking on the same court, date and slot, and quota not exceeded; and any
   confirmed booking on the same court, date and slot gives the
   'already booked' message *)
C7_Original ==
    \A u \in AllUsers, c \in Courts, d \in DaysAhead, s \in TimeSlots :
        LET v == validate_booking_request(c, today + d, s, u)
        IN  /\ v.is_valid <=> /\ (v.is_available_now \/ v.is_schedulable)
                              /\ ~ConfirmedOn(c, today + d, s)
                              /\ ~OverQuota(u, today + d)
            /\ ConfirmedOn(c, today + d, s) =>
                   ~v.is_valid /\ v.message.kind = "already_booked"

(* C7 amended: is_valid iff (available now or schedulable), no confirmed
   booking on the same court, date and slot, and quota not exceeded; a
   confirmed booking on the same court, date and slot makes the request
   invalid, with the 'already booked' message unless the user's daily quota
   is exceeded as well (then the daily-limit message is returned) *)
C7_ValidIff ==
    \A u \in AllUsers, c \in Courts, d \in DaysAhead, s \in TimeSlots :
        LET v == validate_booking_request(c, today + d, s, u)
        IN  /\ v.is_valid <=> /\ (v.is_available_now \/ v.is_schedulable)
                              /\ ~ConfirmedOn(c, today + d, s)
                              /\ ~OverQuota(u, today + d)
            /\ ConfirmedOn(c, today + d, s) =>
                   /\ ~v.is_valid
                   /\ ~OverQuota(u, today + d) => v.message.kind = "already_booked"
                   /\ OverQuota(u, today + d) => v.message.kind = "max_bookings"

(* C7 witness: a request colliding with a confirmed booking has been
   validated by a creation and answered 'already booked' *)
C7_Witness ==
    /\ last.op = "create_booking_request"
    /\ ConfirmedOn(last.court_id, last.booking_date, last.time_slot)
    /\ ~last.validation.is_valid
    /\ last.validation.message.kind = "already_booked"

(* C8: when the user already has at least 2 pending/confirmed bookings on
   the requested date, the request is invalid and the message is the
   daily-limit message, whatever the conflict and window situation *)
C8_QuotaPrecedence ==
    \A u \in Users, c \in Courts, d \in DaysAhead, s \in TimeSlots :
        LET v == validate_booking_request(c, today + d, s, u)
        IN  ActiveBookings(u, today + d) >= 2 =>
                ~v.is_valid /\ v.message = Message("max_bookings", 2)

(* C8 witness: a user over quota has submitted a request that also collides
   with a confirmed booking and got the daily-limit message *)
C8_Witness ==
    /\ last.op = "create_booking_request"
    /\ last.user_id \in Users
    /\ ActiveBookings(last.user_id, last.booking_date) >= 2
    /\ ConfirmedOn(last.court_id, last.booking_date, last.time_slot)
    /\ last.validation.message.kind = "max_bookings"

(* C9: create_booking_request for a candidate whose validation is invalid
   returns the validation message with status failed and no booking id,
   writes nothing and leaves the stored requests unchanged *)
C9_RejectedCreatesNothing ==
    [][(/\ last'.op = "create_booking_request"
        /\ ~validate_booking_request(last'.court_id, last'.booking_date,
                                     last'.time_slot, last'.user_id).is_valid)
       => /\ db' = db
          /\ ~last'.wrote
          /\ last'.booking_id = 0
          /\ last'.status = FAILED
          /\ last'.message = validate_booking_request(
                last'.court_id, last'.booking_date,
                last'.time_slot, last'.user_id).message]_vars

(* C9 witness: a creation has been rejected for a date beyond the window *)
C9_Witness ==
    /\ last.op = "create_booking_request"
    /\ ~last.validation.is_valid
    /\ last.message.kind = "window"
    /\ last.booking_id = 0

(* C10: a valid create_booking_request persists exactly one new record,
   with retry count 0, pending when the date is available now and scheduled
   with scheduled_for = available_at = midnight tomorrow otherwise; every
   record that appears in the store starts as pending or scheduled *)
C10_InitialStatus ==
    [][/\ \A id \in RequestIds :
            (db[id] = NoRecord /\ db'[id] # NoRecord) =>
                db'[id].status \in {PENDING, SCHEDULED}
       /\ LET v == validate_booking_request(last'.court_id, last'.booking_date,
                                            last'.time_slot, last'.user_id)
          IN  (last'.op = "create_booking_request" /\ v.is_valid) =>
                \E id \in RequestIds :
                    /\ db[id] = NoRecord
                    /\ db'[id] # NoRecord
                    /\ \A o \in RequestIds \ {id} : db'[o] = db[o]
                    /\ last'.booking_id = id
                    /\ db'[id].retry_count = 0
                    /\ db'[id].user_id = last'.user_id
                    /\ db'[id].court_id = last'.court_id
                    /\ db'[id].booking_date = last'.booking_date
                    /\ db'[id].time_slot = last'.time_slot
                    /\ last'.status = db'[id].status
                    /\ v.is_available_now =>
                          db'[id].status = PENDING /\ last'.scheduled_for = None
                    /\ ~v.is_available_now =>
                          /\ db'[id].status = SCHEDULED
                          /\ last'.scheduled_for = v.available_at
                          /\ last'.scheduled_for = (today + 1) * SecondsPerDay]_vars

(* C10 witness: a request at the window distance has been stored as
   scheduled for midnight tomorrow *)
C10_Witness ==
    /\ last.op = "create_booking_request"
    /\ last.booking_id # 0
    /\ db[last.booking_id] # NoRecord
    /\ db[last.booking_id].status = SCHEDULED
    /\ db[last.booking_id].retry_count = 0
    /\ last.scheduled_for = (today + 1) * SecondsPerDay

---------------------------------------------------------------------------
(* Properties of the lifecycle *)

(* the table of legal transitions *)
LegalTable(s) ==
    CASE s = PENDING -> {PROCESSING, CANCELLED, FAILED}
      [] s = SCHEDULED -> {PROCESSING, CANCELLED, EXPIRED}
      [] s = PROCESSING -> {CONFIRMED, FAILED, CANCELLED}
      [] s = FAILED -> {PROCESSING}
      [] s = CONFIRMED -> {CANCELLED}
      [] s = CANCELLED -> {}
      [] s = EXPIRED -> {}

(* C1: every change of the persisted status of a request, whichever
   operation makes it, is a transition of the legal table *)
C1_OnlyLegalTransitions ==
    [][\A id \in RequestIds :
          (/\ db[id] # NoRecord
           /\ db'[id] # NoRecord
           /\ db'[id].status # db[id].status)
          => db'[id].status \in LegalTable(db[id].status)]_vars

(* C2: update_booking_status called on a pair (current status, new status)
   outside the legal table fails with the invalid-transition error, issues
   no write and leaves the stored record, status and updated_at included,
   as it was *)
C2_IllegalUpdateRejected ==
    [][\A id \in RequestIds, s \in BookingStatus :
          (/\ db[id] # NoRecord
           /\ s \notin LegalTable(db[id].status)
           /\ last'.op = "update_booking_status"
           /\ last'.booking_id = id
           /\ last'.new_status = s)
          => /\ last'.result = "invalid_transition"
             /\ ~last'.wrote
             /\ db'[id].status = db[id].status
             /\ db'[id].updated_at = db[id].updated_at
             /\ db' = db]_vars

(* C2 witness: a confirmed request, last written on an earlier day, has
   been refused the move back to processing *)
C2_Witness ==
    /\ last.op = "update_booking_status"
    /\ last.result = "invalid_transition"
    /\ last.new_status = PROCESSING
    /\ db[last.booking_id].status = CONFIRMED
    /\ db[last.booking_id].updated_at < now

(* C3: a cancelled or expired request never changes status again, and a
   confirmed request only ever changes to cancelled *)
C3_TerminalStatesStay ==
    [][\A id \in RequestIds :
          (db[id] # NoRecord /\ db'[id] # NoRecord)
          => /\ db[id].status \in {CANCELLED, EXPIRED}
                => db'[id].status = db[id].status
             /\ db[id].status = CONFIRMED
                => db'[id].status \in {CONFIRMED, CANCELLED}]_vars

(* C4: in every reachable state the retry count of every stored request is
   at most its maximum *)
C4_RetryCountBounded ==
    \A id \in StoredIds : db[id].retry_count <= db[id].max_retries

(* C4 witness: increment_retry_count has been called on a request whose
   retry count stands at the maximum, and wrote nothing *)
C4_Witness ==
    /\ last.op = "increment_retry_count"
    /\ ~last.wrote
    /\ db[last.booking_id] # NoRecord
    /\ db[last.booking_id].retry_count = db[last.booking_id].max_retries

---------------------------------------------------------------------------
(* Properties of the read-only and owner-checked operations *)

(* C16: validate_booking_request writes nothing to the store and schedules
   no job, and a second call with the same inputs on the same day, with the
   store unchanged in between, returns the same result as the first *)
C16_ValidateReadOnlyIdempotent ==
    [][last'.op = "validate_booking_request" =>
          /\ db' = db
          /\ nextId' = nextId
          /\ jobs' = jobs
          /\ ~last'.wrote
          /\ (/\ last.op = "validate_booking_request"
              /\ last'.user_id = last.user_id
              /\ last'.court_id = last.court_id
              /\ last'.booking_date = last.booking_date
              /\ last'.time_slot = last.time_slot)
             => last'.validation = last.validation]_vars

(* C16 witness: a validation has been answered against a store that holds
   a confirmed booking of the slot asked for, and found the conflict *)
C16_Witness ==
    /\ last.op = "validate_booking_request"
    /\ last.user_id = "u2"
    /\ ~last.validation.is_valid
    /\ \E id \in StoredIds :
           /\ db[id].status = CONFIRMED
           /\ db[id].court_id = last.court_id
           /\ db[id].booking_date = last.booking_date
           /\ db[id].time_slot = last.time_slot

(* C17: cancel_booking returns false and writes nothing when the request
   does not exist or belongs to another user; when it returns true the
   record's owner is the caller and the stored status is cancelled *)
C17_CancelOwnerOnly ==
    [][last'.op = "cancel_booking" =>
          LET id == last'.booking_id
          IN  /\ (db[id] = NoRecord \/ db[id].user_id # last'.user_id)
                 => (~last'.result /\ db' = db /\ ~last'.wrote)
              /\ last'.result
                 => /\ db[id] # NoRecord
                    /\ db[id].user_id = last'.user_id
                    /\ db'[id].user_id = last'.user_id
                    /\ db'[id].status = CANCELLED]_vars

(* C17 witness: the other user's cancellation of a stored, uncancelled
   request has been refused *)
C17_Witness ==
    /\ last.op = "cancel_booking"
    /\ ~last.result
    /\ db[last.booking_id] # NoRecord
    /\ db[last.booking_id].user_id # last.user_id
    /\ db[last.booking_id].status = CONFIRMED

---------------------------------------------------------------------------
(* Properties of the maintenance sweeps *)

(* the stored requests created before the cutoff whose status is in statuses *)
OldWithStatus(statuses, cutoff_time) ==
    {id \in StoredIds : /\ db[id].created_at < cutoff_time
                        /\ db[id].status \in statuses}

(* C19: expire_old_requests marks every pending and every scheduled request
   older than 24 hours as expired, returns the number of those requests, and
   changes no other request *)
C19_SweepExpiresOld ==
    [][last'.op = "expire_old_requests" =>
          LET old == OldWithStatus({PENDING, SCHEDULED},
                                   now - ExpireHoursOld * SecondsPerHour)
          IN  /\ \A id \in old : db'[id].status = EXPIRED
              /\ last'.result = Cardinality(old)
              /\ \A id \in RequestIds \ old : db'[id] = db[id]]_vars

(* C20: cleanup_old_bookings deletes exactly the requests created before
   the retention cutoff whose status is confirmed, cancelled, failed or
   expired, and returns their number; a pending, scheduled or processing
   request is kept, however old *)
C20_CleanupExactlyOldFinal ==
    [][last'.op = "cleanup_old_bookings" =>
          LET old == OldWithStatus({CONFIRMED, CANCELLED, FAILED, EXPIRED},
                                   now - last'.days_old * SecondsPerDay)
          IN  /\ \A id \in old : db'[id] = NoRecord
              /\ \A id \in RequestIds \ old : db'[id] = db[id]
              /\ last'.result = Cardinality(old)
              /\ \A id \in StoredIds :
                     db[id].status \in {PENDING, SCHEDULED, PROCESSING}
                     => db'[id] = db[id]]_vars

(* C20 witness: a cleanup has deleted one old request and kept another
   that is as old but still being processed *)
C20_Witness ==
    /\ last.op = "cleanup_old_bookings"
    /\ last.result = 1
    /\ \E id \in StoredIds :
           /\ db[id].status = PROCESSING
           /\ db[id].created_at < now - last.days_old * SecondsPerDay

---------------------------------------------------------------------------
(* Properties of the processor's executions *)

(* C18: when the execution of a request that has been cancelled in the
   meantime ends, with success or with failure, its outcome is not applied:
   the stored status stays cancelled *)
C18_OutcomeKeepsCancellation ==
    [][\A id \in StoredIds :
          (/\ db[id].status = CANCELLED
           /\ last'.op = "_execute_booking"
           /\ last'.booking_id = id)
          => db'[id].status = CANCELLED]_vars

---------------------------------------------------------------------------
(* Properties of the retry delay *)

(* the delays of the specification, in seconds: 10, 20 and 40 minutes for
   attempts 1, 2 and 3, an hour from attempt 4 on *)
ExpectedDelay(attempt) ==
    CASE attempt = 0 -> 5 * 60
      [] attempt = 1 -> 10 * 60
      [] attempt = 2 -> 20 * 60
      [] attempt = 3 -> 40 * 60
      [] OTHER -> 60 * 60

(* C13: the retry delay of attempt n is min(5 min * 2^n, 60 min), that is
   10, 20, 40 and 60 minutes for attempts 1 to 4, and never more than 60
   minutes; the scheduler's job retry sets the job's time that far ahead and
   the processor's booking retry computes the same delay *)
C13_RetryDelay ==
    /\ \A n \in 0..MaxAttempt :
           /\ retry_delay(n) = ExpectedDelay(n)
           /\ retry_delay(n) <= 60 * 60
    /\ (last.op = "_handle_job_failure" /\ last.job.status = JobStatus_PENDING)
       => last.job.scheduled_time - now = ExpectedDelay(last.attempt)
    /\ last.op = "_handle_booking_failure"
       => last.retry_delay = ExpectedDelay(last.attempt)

(* C13 witness: a job has failed for the fourth time with retries left and
   has been put off by the capped delay *)
C13_Witness ==
    /\ last.op = "_handle_job_failure"
    /\ last.attempt = 4
    /\ last.job.status = JobStatus_PENDING
    /\ last.job.scheduled_time = now + RetryCapDelay

(* number of executions in flight for a request id *)
InFlight(id) ==
    LET S == {b \in BagToSet(threads) : b.request_id = id}
        F[T \in SUBSET S] ==
            IF T = {} THEN 0
            ELSE LET b == CHOOSE x \in T : TRUE
                 IN  CopiesIn(b, threads) + F[T \ {b}]
    IN  F[S]

(* C14: whatever dispatch attempts of the poll cycle and of
   process_booking_manually overlap, at most one execution is in flight for
   a request id *)
C14_OneExecutionPerRequest ==
    \A id \in RequestIds : InFlight(id) <= 1

---------------------------------------------------------------------------
(* Properties of the background scheduler *)

(* the loop threads that are inside the handler of job j *)
Executing(j) ==
    {t \in 1..MaxLoops : sched.loops[t].pc = "handler" /\ sched.loops[t].job = j}

(* C15: the scheduler never executes a job twice at the same time, whatever
   the interleaving of the loop threads and the sequence of start() and
   stop() calls: at most one loop thread is inside the handler of a job *)
C15_NoConcurrentExecution ==
    \A j \in 1..MaxJobs : Cardinality(Executing(j)) <= 1

(* the request was created as scheduled: its date lies the whole window
   after the day of its creation *)
CreatedScheduled(id) ==
    /\ db[id] # NoRecord
    /\ db[id].booking_date = db[id].created_at \div SecondsPerDay + DefaultWindowDays

(* the midnight job of the request has fired and the executor has reported
   success *)
MidnightJobSucceeded(id) ==
    /\ last.op = "job_handler"
    /\ last.job_type = MIDNIGHT_BOOKING
    /\ last.booking_id = id
    /\ last.success
    /\ CreatedScheduled(id)

(* C11: once the midnight job of a request created as scheduled has fired
   and the executor has reported success, the request eventually is
   confirmed, and a request becomes confirmed from processing only *)
C11_ScheduledJobConfirms ==
    /\ \A id \in LifecycleIds :
           MidnightJobSucceeded(id) ~> (db[id] # NoRecord /\ db[id].status = CONFIRMED)
    /\ [][\A id \in LifecycleIds :
              (/\ db[id] # NoRecord
               /\ db[id].status # CONFIRMED
               /\ db'[id].status = CONFIRMED)
              => db[id].status = PROCESSING]_vars

(* number of terminal-failure notifications sent for a request *)
FailureNotifications(id) ==
    CopiesIn([booking_id |-> id, event_type |-> "failed"], notifications)

(* no execution of the request is in flight, in the processor or in a job *)
Quiet(id) ==
    /\ InFlight(id) = 0
    /\ \A t \in 1..MaxLoops :
           sched.loops[t].pc = "handler"
           => jobs[sched.loops[t].job].booking_request_id # id

(* C12: with max_retries = 3 and an executor that fails every time, once
   the executor has failed 3 times the request is failed with retry count
   3 and stays so, and its failure notification has been sent exactly
   once *)
C12_ThreeFailuresFail ==
    \A id \in StoredIds :
        (executor_failures[id] >= DefaultMaxRetries /\ Quiet(id))
        => /\ db[id].status = FAILED
           /\ db[id].retry_count = DefaultMaxRetries
           /\ FailureNotifications(id) = 1

---------------------------------------------------------------------------
(* Properties of failed requests and their retries *)

(* C23: a failed request whose retries are exhausted stays failed: no step
   of the scheduler's retry handler, the processor or update_booking_status
   moves it to another status or calls the executor for it *)
C23_ExhaustedStaysFailed ==
    [][\A id \in StoredIds :
          (db[id].status = FAILED /\ db[id].retry_count = db[id].max_retries)
          => /\ db'[id].status = FAILED
             /\ InFlight(id)' <= InFlight(id)
             /\ ~(/\ last'.op = "_handle_retry_booking"
                  /\ last'.booking_id = id
                  /\ last'.executed)]_vars

Notified(id, event_type) ==
    CopiesIn([booking_id |-> id, event_type |-> event_type], notifications)

Becomes(id, status) ==
    db[id].status # status /\ db'[id].status = status

(* C21: the step that makes a request confirmed, cancelled or expired, or
   failed with its retries exhausted, sends a notification of that event
   for the request, and no failure notification is sent for a request that
   still has retries left *)
C21_NotificationOnTerminalStatus ==
    [][\A id \in StoredIds :
          /\ \A s \in {CONFIRMED, CANCELLED, EXPIRED} :
                Becomes(id, s) => Notified(id, s)' > Notified(id, s)
          /\ (Becomes(id, FAILED)
                 /\ db'[id].retry_count >= db'[id].max_retries)
             => Notified(id, FAILED)' > Notified(id, FAILED)
          /\ Notified(id, FAILED)' > Notified(id, FAILED)
             => db'[id].retry_count >= db'[id].max_retries]_vars

(* C22: when the lifecycle service's completion handler makes a request
   failed while it has retries left, a retry job for the request is
   scheduled min(300 s * 2^retry_count, 3600 s) from now (the retry count
   taken before or after its increment) and the request's retry count is
   raised by one in the same step *)
C22_RetryJobScheduledWithBackoff ==
    [][\A id \in StoredIds :
          (/\ last'.op = "_handle_processing_completed"
           /\ Becomes(id, FAILED)
           /\ db[id].retry_count < db[id].max_retries)
          => /\ \E j \in 1..MaxJobs :
                   /\ jobs[j] = NoJob
                   /\ jobs'[j] # NoJob
                   /\ jobs'[j].job_type = RETRY_BOOKING
                   /\ jobs'[j].booking_request_id = id
                   /\ jobs'[j].scheduled_time \in
                          {now + retry_delay(db[id].retry_count),
                           now + retry_delay(db[id].retry_count + 1)}
             /\ db'[id].retry_count = db[id].retry_count + 1]_vars

---------------------------------------------------------------------------
(* Properties of the scheduler's jobs *)

JobStatusMoves ==
    {<<JobStatus_PENDING, JobStatus_RUNNING>>,
     <<JobStatus_RUNNING, JobStatus_COMPLETED>>,
     <<JobStatus_RUNNING, JobStatus_PENDING>>,
     <<JobStatus_RUNNING, JobStatus_FAILED>>,
     <<JobStatus_PENDING, JobStatus_CANCELLED>>}

(* C24: the status of a scheduled job changes only from pending to running,
   from running to completed, pending or failed, and from pending to
   cancelled; cancel_job returns true exactly for a known pending job, which
   it cancels, and otherwise returns false and changes no job *)
C24_JobStatusMoves ==
    [][/\ \A j \in 1..MaxJobs :
             (jobs[j] # NoJob /\ jobs'[j].status # jobs[j].status)
             => <<jobs[j].status, jobs'[j].status>> \in JobStatusMoves
       /\ last'.op = "cancel_job"
          => /\ last'.result = (/\ known_job(last'.job)
                                /\ jobs[last'.job].status = JobStatus_PENDING)
             /\ last'.result
                => jobs' = [jobs EXCEPT ![last'.job].status = JobStatus_CANCELLED]
             /\ ~last'.result => jobs' = jobs]_vars

(* C25: when the handler of a job has returned false, the job's retry count
   is one more; below max_retries the job is pending again, due
   min(300 s * 2^retry_count, 3600 s) from now, and otherwise it is failed
   with completed_at set; a failed job never changes again, so that no job
   is attempted more than max_retries times *)
C25_JobFailureHandling ==
    [][\A j \in 1..MaxJobs :
          /\ (/\ last'.op = "job_handler"
              /\ last'.job = j
              /\ ~last'.result)
             => /\ jobs'[j].retry_count = jobs[j].retry_count + 1
                /\ IF jobs'[j].retry_count < jobs'[j].max_retries
                   THEN /\ jobs'[j].status = JobStatus_PENDING
                        /\ jobs'[j].scheduled_time =
                               now + ExpectedDelay(jobs'[j].retry_count)
                   ELSE /\ jobs'[j].status = JobStatus_FAILED
                        /\ jobs'[j].completed_at = now
          /\ (jobs[j] # NoJob /\ jobs[j].status = JobStatus_FAILED)
             => /\ jobs'[j].status = JobStatus_FAILED
                /\ jobs'[j].retry_count = jobs[j].retry_count
          /\ jobs'[j] # NoJob => jobs'[j].retry_count <= jobs'[j].max_retries]_vars

DuePending(j) ==
    /\ known_job(j)
    /\ jobs[j].status = JobStatus_PENDING
    /\ jobs[j].scheduled_time <= now

(* C29: while the scheduler is running, no job stays pending with its time
   come for ever: it is eventually marked running (unless it is cancelled or
   put off, or the scheduler is stopped, first); and no job is marked
   running while its scheduled time is still in the future *)
C29_DueJobsDispatchedOnTime ==
    /\ \A j \in 1..MaxJobs :
           (sched.running /\ DuePending(j))
           ~> (~DuePending(j) \/ ~sched.running)
    /\ [][\A j \in 1..MaxJobs :
             (/\ last'.op = "_execute_job"
              /\ jobs'[j] # jobs[j])
             => jobs[j].scheduled_time <= now]_vars

FinishedJob(j) ==
    /\ known_job(j)
    /\ jobs[j].status \in {JobStatus_COMPLETED, JobStatus_CANCELLED,
                           JobStatus_FAILED}

(* C27: while the scheduler is running, a job that is completed, cancelled
   or failed on the first day, more than 24 hours before the clock's last
   day, is eventually removed from the job table by a poll cycle (unless it
   is executed again first) *)
C27_FinishedJobsPurged ==
    \A j \in 1..MaxJobs :
        (sched.running /\ FinishedJob(j) /\ today = 0) ~> ~FinishedJob(j)

MaintenanceJobTypes == {CLEANUP_SESSIONS, CLEANUP_EXPIRED_BOOKINGS}

PendingJobsOfType(js, job_type) ==
    {j \in 1..MaxJobs : /\ js[j] # NoJob
                        /\ js[j].listed
                        /\ js[j].status = JobStatus_PENDING
                        /\ js[j].job_type = job_type}

(* C28: a maintenance job that has run schedules one new pending job, of
   its own type, and no maintenance type has more than one pending job
   afterwards *)
C28_MaintenanceReschedulesItself ==
    [][(/\ last'.op = "job_handler"
        /\ last'.job_type \in MaintenanceJobTypes
        /\ last'.result)
       => LET new == {j \in 1..MaxJobs : jobs[j] = NoJob /\ jobs'[j] # NoJob}
          IN  /\ Cardinality(new) = 1
              /\ \A j \in new : /\ jobs'[j].job_type = last'.job_type
                                /\ jobs'[j].status = JobStatus_PENDING
              /\ \A job_type \in MaintenanceJobTypes :
                     Cardinality(PendingJobsOfType(jobs', job_type)) <= 1]_vars

(* C26: a handler that fails does not end the scheduler's loop: the job is
   handled as a failed job, the loop thread goes on with the jobs that are
   left of the cycle's ready list, each of which it dispatches, and a loop
   thread ends only when the scheduler is not running *)
C26_HandlerFailureKeepsLoop ==
    [][\A t \in 1..MaxLoops :
          /\ (/\ sched.loops[t].pc = "handler"
              /\ sched'.loops[t] # sched.loops[t]
              /\ ~last'.result)
             => /\ jobs'[sched.loops[t].job] =
                       _handle_job_failure(jobs[sched.loops[t].job])
                /\ sched'.loops[t].pc = "ready"
                /\ sched'.loops[t].ready = sched.loops[t].ready
                /\ sched'.running = sched.running
          /\ (/\ sched.loops[t].pc = "ready"
              /\ sched.loops[t].ready # {}
              /\ sched'.loops[t] # sched.loops[t])
             => /\ sched'.loops[t].pc = "handler"
                /\ sched'.loops[t].job \in sched.loops[t].ready
                /\ jobs'[sched'.loops[t].job].status = JobStatus_RUNNING
          /\ (sched.loops[t] # NoLoop /\ sched'.loops[t] = NoLoop)
             => ~sched.running]_vars

(* a job has failed in this cycle and the next job of the same ready list is
   in its handler *)
C26_Witness ==
    \E t \in 1..MaxLoops, j \in 1..MaxJobs :
        /\ sched.running
        /\ sched.loops[t].pc = "handler"
        /\ sched.loops[t].job # j
        /\ jobs[j] # NoJob
        /\ jobs[j].status = JobStatus_PENDING
        /\ jobs[j].retry_count = 1
        /\ jobs[j].scheduled_time = now + retry_delay(1)

---------------------------------------------------------------------------
(* Properties of the processor's concurrency *)

(* C30: the in-progress set of the processor never holds more than
   max_concurrent_bookings requests, and no more than that many executions
   are in flight *)
C30_InFlightBounded ==
    /\ Cardinality(processing_bookings) <= MaxConcurrentBookings
    /\ BagCardinality(threads) <= MaxConcurrentBookings

---------------------------------------------------------------------------
(* Properties of the processor's dispatch and of its handling of outcomes *)

(* the instant the booking window of a stored request opens: midnight of
   the first day whose window (that day and the window_days - 1 days after
   it) holds the booking date; available_at of the validation *)
window_opens_at(booking) ==
    (booking.booking_date - get_court_availability_window(booking.court_id) + 1)
        * SecondsPerDay

(* C31: a poll cycle moves a scheduled request to processing and hands it to
   the executor only when the request is due, i.e. the opening of its
   booking window has passed *)
C31_ScheduledDispatchedWhenDue ==
    [][\A id \in RequestIds :
        (/\ last'.op = "_process_booking_request"
         /\ last'.booking_id = id
         /\ db[id] # NoRecord
         /\ db[id].status = SCHEDULED
         /\ id \in processing_bookings' \ processing_bookings)
        => window_opens_at(db[id]) <= now]_vars

(* C32: when the executor fails (failure returned or exception raised) for
   a request in processing, the request takes the transition to failed: it
   is in failed status when the execution thread has ended, never still in
   processing and never back in a dispatchable status *)
C32_ExecutorFailureFails ==
    [][\A id \in RequestIds :
        (/\ last'.op = "_execute_booking"
         /\ last'.booking_id = id
         /\ ~last'.result
         /\ db[id] # NoRecord
         /\ db[id].status = PROCESSING)
        => db'[id].status = FAILED]_vars

---------------------------------------------------------------------------
(* Overlapping calls on one request: the request is created, callers update
   its status or cancel it, each call reading first and writing later. *)

UpdateReadCall ==
    \E c \in Callers, id \in LifecycleIds, s \in BookingStatus :
        UpdateBookingStatusRead(c, id, s)

CancelReadCall ==
    \E c \in Callers, id \in LifecycleIds, u \in Users :
        CancelBookingRead(c, id, u)

WriteCall == \E c \in Callers : BookingWrite(c)

NextOverlappingCalls ==
    \/ CreateRequest
    \/ UpdateReadCall
    \/ CancelReadCall
    \/ WriteCall

SpecOverlappingCalls == Init /\ [][NextOverlappingCalls]_vars

(* C33: a status change is one conditional write: the write of a call whose
   record has been changed by another call since the call read it is not
   applied and leaves the stored record as it is *)
C33_ConditionalWrite ==
    [][\A c \in Callers :
        (/\ calls[c] # NoCall
         /\ calls[c].op \in {"update_booking_status", "cancel_booking"}
         /\ calls'[c] = NoCall
         /\ db[calls[c].booking.request_id] # calls[c].read)
        => db' = db]_vars

(* C34: every stored request in confirmed status has a confirmation code
   and a confirmation time *)
C34_ConfirmedHasCode ==
    \A id \in StoredIds :
        db[id].status = CONFIRMED
        => /\ db[id].confirmation_code # None
           /\ db[id].confirmed_at # None

(* the loop threads that are inside a booking handler for request id *)
HandlingBooking(id) ==
    {t \in 1..MaxLoops :
        /\ sched.loops[t].pc = "handler"
        /\ jobs[sched.loops[t].job] # NoJob
        /\ jobs[sched.loops[t].job].job_type \in {MIDNIGHT_BOOKING, RETRY_BOOKING}
        /\ jobs[sched.loops[t].job].booking_request_id = id}

(* C35: the executor is never invoked twice at the same time for a request
   id, the execution threads of the processor and the booking handlers of
   the scheduler taken together: at most one execution thread is in flight
   for the id, and a scheduler handler calls the executor for the id only
   while no execution thread and no other handler is running for it *)
C35_OneInvocationAcrossComponents ==
    /\ [](\A id \in RequestIds : InFlight(id) <= 1)
    /\ [][\A id \in RequestIds :
            (/\ last'.op = "job_handler"
             /\ last'.executed
             /\ last'.booking_id = id)
            => /\ InFlight(id) = 0
               /\ Cardinality(HandlingBooking(id)) <= 1]_vars

---------------------------------------------------------------------------
(* Recovery after a restart: a request is created and dispatched by the poll
   cycle or by hand, the process is restarted while executions are in
   flight, and the operator processes the request by hand. *)

NextRecovery ==
    \/ CreateRequest
    \/ ProcessPendingBookings
    \/ ProcessScheduledBookings
    \/ DispatchBooking
    \/ CleanupExpiredBookings
    \/ ExecuteCall
    \/ ProcessorRestart
    \/ ProcessManuallyCall

SpecRecovery == Init /\ [][NextRecovery]_vars

(* the store holds request id in processing status while the processor has
   neither an in-progress entry nor an execution thread for it *)
StaleProcessing(id) ==
    /\ db[id] # NoRecord
    /\ db[id].status = PROCESSING
    /\ id \notin processing_bookings
    /\ InFlight(id) = 0

(* C36: process_booking_manually on a request left in processing status
   without an in-progress entry starts an execution for it, whose outcome
   is then recorded *)
C36_StaleProcessingRecoverable ==
    [][\A id \in RequestIds :
        (/\ StaleProcessing(id)
         /\ last'.op = "_process_booking_request"
         /\ last'.booking_id = id
         /\ poll' = poll)
        => InFlight(id)' = 1]_vars

(* C37: a job that cancel_job has cancelled stays cancelled and its handler
   is not run afterwards, even when the loop thread had already taken the
   job into the ready list of its current cycle *)
C37_CancelledJobNeverRuns ==
    [][\A j \in 1..MaxJobs :
        (jobs[j] # NoJob /\ jobs[j].status = JobStatus_CANCELLED)
        => /\ jobs'[j] # NoJob => jobs'[j].status = JobStatus_CANCELLED
           /\ \A t \in 1..MaxLoops :
                (sched'.loops[t].pc = "handler" /\ sched'.loops[t].job = j)
                => (sched.loops[t].pc = "handler" /\ sched.loops[t].job = j)]_vars

(* C38: a request id is in the in-progress set of the processor only while
   an execution thread for it is running: when a dispatch has ended, by the
   end of the execution or by a failed move to processing, the id is out of
   the set *)
C38_InProgressOnlyWhileExecuting ==
    \A id \in processing_bookings : InFlight(id) >= 1

---------------------------------------------------------------------------
(* Overlapping create calls of one user for one date, court and slot, with
   the processor's poll cycle confirming the stored requests. *)

CreateValidateCall ==
    \E c \in Callers :
        CreateBookingRequestValidate(c, "u1", 1, DefaultWindowDays - 1,
                                     "De 08:00 AM a 09:00 AM")

CreateSaveCall == \E c \in Callers : CreateBookingRequestSave(c)

NextOverlappingCreates ==
    \/ CreateValidateCall
    \/ CreateSaveCall
    \/ ProcessPendingBookings
    \/ ProcessScheduledBookings
    \/ DispatchBooking
    \/ CleanupExpiredBookings
    \/ ExecuteSuccess

SpecOverlappingCreates == Init /\ [][NextOverlappingCreates]_vars

(* C39: no user ever has more than the daily maximum of booking requests in
   pending or confirmed status for one booking date *)
C39_DailyQuotaKept ==
    \A u \in Users : \A id \in StoredIds :
        ActiveBookings(u, db[id].booking_date) <= MaxBookingsPerDay

(* C40: at any time at most one stored request is confirmed for a court, a
   booking date and a time slot *)
C40_OneConfirmedPerSlot ==
    \A id \in StoredIds :
        Cardinality(get_booking_conflicts(db[id].court_id, db[id].booking_date,
                                          db[id].time_slot)) <= 1

====
